---------------------------- MODULE Spec2Model ----------------------------
(***************************************************************************)
(* Trading core of the stock-market simulation:                            *)
(*   - MatchingEngine (market-service/matching-engine.js): per-symbol      *)
(*     order books, addOrder / matchOrders / cancelOrder, emitEvent;       *)
(*   - market service (market-service/server.js): placeOrder,              *)
(*     processExecution, cancelOrder;                                      *)
(*   - PortfolioManager (investor-service/portfolio-manager.js):           *)
(*     validateOrder, updateBalance, updatePortfolio.                      *)
(*   - PriceManager (price-service/price-manager.js): updatePrice,         *)
(*     resetDailyPrices, notifyPriceUpdate;                                *)
(*   - the streaming handlers streamMarketEvents and streamPrices;         *)
(*   - WebhookManager (webhook-service): dispatchEvent,                    *)
(*     processDeliveryQueue, deliverWebhook, updateWebhookStatus;          *)
(*   - AnalyticsEngine (analytics-service): getInvestorPerformance.        *)
(*                                                                         *)
(* JavaScript values: order_type arrives either as the number 0 / 1 or as  *)
(* the string 'BUY' / 'SELL'; the numbers are written "0" and "1" here so  *)
(* that the four values stay distinct and comparable.  Prices and amounts  *)
(* are whole numbers; price 0 is a market order.                           *)
(***************************************************************************)
EXTENDS Integers, Sequences, FiniteSets, TLC

\* ------------------------------------------------------------------ bounds
MaxOrders == 3      \* orders created in one behaviour
MaxQty    == 2      \* order quantities are 1..MaxQty
MaxPrice  == 2      \* limit prices are 1..MaxPrice, 0 is a market order
MaxInFlight == 1    \* PlaceOrder calls the market service works on at once
MaxActive  == 2     \* calls the investor service works on at once
MaxBacklog == 0     \* price and analytics calls waiting when other work starts
SeedCash   == 2     \* initial balance of every investor
SeedShares == 2     \* initial holding of investor B in every symbol
SeedPrice  == 2     \* initial price of every stock, in ticks of 0.01
MaxAdmissions == 3  \* addOrder calls in a behaviour that repeats order ids
MaxPriceCalls == 2  \* updatePrice calls the price service receives in a behaviour
MaxMove    == 2     \* largest price change of one update, in ticks
MaxVolume  == 1     \* trade volumes are 0..MaxVolume
PriceFloor == 1     \* Math.max(0.01, ...): 0.01 is one tick
MaxStateOrders == 2 \* PlaceOrder calls in a behaviour that changes the market state
MaxInvestorCalls == 3 \* calls made directly on the investor service in a behaviour
MaxAmount  == 3     \* UpdateBalance amounts are -MaxAmount..MaxAmount, not 0
MaxStreams == 2     \* streamMarketEvents / streamPrices calls in a behaviour
MaxStreamOrders == 2  \* orders admitted in a behaviour with streams
MaxStreamPriceCalls == 1  \* updatePrice calls in a behaviour with streams
QueueCapacity == 2  \* undelivered events a subscriber may have (default 1024)
MaxDispatches == 2  \* dispatchEvent calls in a behaviour
MaxTransactions == 51  \* transactions rows in a behaviour that asks for performance
maxRetries == 3     \* WebhookManager: this.maxRetries = 3

Investors  == {"A", "B"}
Symbols    == {"AAPL"}
RequestOrderTypes == {"0", "1"}
EngineOrderTypes == {"0", "SELL"}          \* one encoding per side, for direct calls
Quantities == 1..MaxQty
Prices     == 0..MaxPrice

VARIABLES
  orders,        \* MatchingEngine.orders: order_id -> order object
  orderBooks,    \* MatchingEngine.orderBooks: symbol -> [bids, asks] (order ids)
  events,        \* the events emitEvent has published, in publish order
  pc,            \* "idle", or "matching" while addOrder's matchOrders loop runs
  cur,           \* the symbol matchOrders was called with, and its caller
  executions,    \* matchOrders' local array `executions`
  uuid,          \* number of order ids drawn from uuidv4()
  execCount,     \* number of execution ids drawn from uuidv4()
  clock,         \* the last value Date.now() returned to the market service
  marketState,   \* market service: 'OPEN', 'CLOSED' or 'PAUSED'
  requests,      \* the PlaceOrder calls received, each with its position
  ordersTable,   \* rows of the orders table
  investors,     \* investors table: investor_id -> balance
  portfolio,     \* portfolio table: <<investor_id, stock_symbol>> -> row or NoRow
  transactions,  \* rows of the transactions table (transaction_id is its key)
  investorCalls, \* UpdatePortfolio / UpdateBalance calls sent by processExecution
  priceCalls,    \* UpdatePrice / GetPrice calls on their way to the price service
  price_history, \* rows of the price_history table
  analyticsCalls,    \* RecordTrade calls on their way to the analytics service
  analytics_trades,  \* rows of the analytics_trades table
  performance,   \* what getInvestorPerformance answered last
  stocks,        \* stocks table: symbol -> row (prices in ticks of 0.01)
  priceHandlers, \* the updatePrice calls the price service has received
  priceEvents,   \* the updates notifyPriceUpdate has published, in publish order
  eventSubscribers, \* MatchingEngine.eventSubscribers: callbacks in insertion order
  priceSubscribers, \* PriceManager.priceSubscribers: callbacks in insertion order
  streams,       \* the streamMarketEvents / streamPrices calls, by stream id
  deliveryQueue, \* WebhookManager.deliveryQueue
  isProcessing,  \* WebhookManager.isProcessing
  posting,       \* the delivery whose axios.post is awaited, or NoDelivery
  timers,        \* the retries setTimeout has scheduled
  posts,         \* number of axios.post calls made for each delivery
  dispatched,    \* number of dispatchEvent calls so far
  webhooks,      \* rows of the webhooks table: id -> [events, active]
  reply          \* what cancelOrder / setMarketState answered last

engineVars == <<orders, orderBooks, events, pc, cur, executions, uuid, execCount>>
marketVars == <<marketState, requests, ordersTable, clock>>
investorVars == <<investors, portfolio, transactions, investorCalls>>
priceVars == <<priceCalls, price_history>>
analyticsVars == <<analyticsCalls, analytics_trades, performance>>
stockVars == <<stocks, priceHandlers, priceEvents>>
subscriberVars == <<eventSubscribers, priceSubscribers>>
busVars == <<eventSubscribers, priceSubscribers, streams>>
webhookVars == <<deliveryQueue, isProcessing, posting, timers, posts, dispatched,
                 webhooks>>
vars == <<orders, orderBooks, events, pc, cur, executions, uuid, execCount,
          clock, marketState, requests, ordersTable, investors, portfolio,
          transactions, investorCalls, priceCalls, price_history,
          analyticsCalls, analytics_trades, performance, stocks, priceHandlers,
          priceEvents, reply,
          eventSubscribers, priceSubscribers, streams,
          deliveryQueue, isProcessing, posting, timers, posts, dispatched,
          webhooks>>

NoCall == [symbol |-> "", order_id |-> 0, request |-> 0]

\* ------------------------------------------------------- MatchingEngine
\* matching-engine.js:36 and :204  (order_type === 'BUY' || order_type === 0)
IsBuy(order_type) == order_type = "BUY" \/ order_type = "0"

Min(a, b) == IF a <= b THEN a ELSE b

\* Array.prototype.sort is stable: insert x behind every element whose key
\* is not greater than x's.
Insert(x, s, key) ==
  LET n == Cardinality({i \in 1..Len(s) : key[s[i]] <= key[x]})
  IN  SubSeq(s, 1, n) \o <<x>> \o SubSeq(s, n + 1, Len(s))

RECURSIVE StableSort(_, _)
StableSort(s, key) ==
  IF s = <<>> THEN <<>>
  ELSE Insert(s[Len(s)], StableSort(SubSeq(s, 1, Len(s) - 1), key), key)

\* bids.sort((a, b) => b.price - a.price): descending price
BidKey(ords) == [i \in DOMAIN ords |-> 0 - ords[i].price]

AskKeyMut(ords) == [i \in DOMAIN ords |-> 0 - ords[i].price]
\* asks.sort((a, b) => a.price - b.price): ascending price
AskKey(ords) == [i \in DOMAIN ords |-> ords[i].price]

EmptyBook == [bids |-> <<>>, asks |-> <<>>]

\* this.orderBooks[stock_symbol], created on first use (lines 25-30)
BookOf(books, s) == IF s \in DOMAIN books THEN books[s] ELSE EmptyBook

SetBook(books, s, b) ==
  [x \in DOMAIN books \cup {s} |-> IF x = s THEN b ELSE books[x]]

\* ------------------------------------------------- subscribers
StreamIds == 1..MaxStreams

\* the stock_symbols a stream request carries: none, which asks for every
\* symbol, or a list
Filters == {{}, {"GOOGL"}}

\* a stream call nobody has made yet
NoStream == [status |-> "none", service |-> "", stock_symbols |-> {},
             throws |-> FALSE, written |-> <<>>, read |-> 0]

\* The callback streamMarketEvents and streamPrices subscribe
\* (server.js:348-359, part_007:100-111): the filter, then call.write.  An
\* event is written as seq, its place among the events of its publisher.
callback(stream, event, seq) ==
  IF stream.stock_symbols # {} /\ event.stock_symbol \notin stream.stock_symbols
  THEN stream
  ELSE [stream EXCEPT !.written = Append(@, seq)]

\* a forEach without the try/catch: the first callback that throws ends it
RECURSIVE forEachMut(_, _, _, _)
forEachMut(subscribers, strs, event, seq) ==
  IF subscribers = <<>> THEN strs
  ELSE LET s == Head(subscribers)
       IN  IF strs[s].throws THEN strs
           ELSE forEachMut(Tail(subscribers),
                           [strs EXCEPT ![s] = callback(strs[s], event, seq)],
                           event, seq)
\* subscribers.forEach(callback => { try { callback(event) } catch ... })
\* (matching-engine.js:309-315, price-manager.js:249-255): a Set is walked in
\* insertion order, and a callback that throws is logged and passed over
RECURSIVE forEach(_, _, _, _)
forEach(subscribers, strs, event, seq) ==
  IF subscribers = <<>> THEN strs
  ELSE LET s == Head(subscribers)
       IN  forEach(Tail(subscribers),
                   IF strs[s].throws THEN strs
                   ELSE [strs EXCEPT ![s] = callback(strs[s], event, seq)],
                   event, seq)

\* MatchingEngine.emitEvent (matching-engine.js:308-316)
emitEvent(strs, event, seq) == forEach(eventSubscribers, strs, event, seq)

\* PriceManager.notifyPriceUpdate (price-manager.js:248-256)
notifyPriceUpdate(strs, priceUpdate, seq) ==
  forEach(priceSubscribers, strs, priceUpdate, seq)

\* the unsubscribe of a stream that leaves its callback in the set
unsubscribeMut(subscribers, s) == subscribers
\* the function subscribe returns: subscribers.delete(callback)
\* (matching-engine.js:302, price-manager.js:239-242)
unsubscribe(subscribers, s) == SelectSeq(subscribers, LAMBDA x : x # s)

PlacedEvent(o) ==
  [event_type |-> "ORDER_PLACED", order_id |-> o.order_id,
   stock_symbol |-> o.stock_symbol, order_type |-> o.order_type,
   quantity |-> o.quantity, price |-> o.price, investor_id |-> o.investor_id]

\* addOrder up to the call of matchOrders (lines 21-67) together with
\* matchOrders' entry test (lines 74-79).
addOrder(order, req) ==
  LET s     == order.stock_symbol
      ords  == [i \in DOMAIN orders \cup {order.order_id} |->
                  IF i = order.order_id THEN order ELSE orders[i]]
      book  == BookOf(orderBooks, s)
      book2 == IF IsBuy(order.order_type)
               THEN [book EXCEPT !.bids = StableSort(Append(@, order.order_id), BidKey(ords))]
               ELSE [book EXCEPT !.asks = StableSort(Append(@, order.order_id), AskKey(ords))]
  IN  /\ orders' = ords
      /\ orderBooks' = SetBook(orderBooks, s, book2)
      /\ events' = Append(events, PlacedEvent(order))
      /\ streams' = emitEvent(streams, PlacedEvent(order), Len(events) + 1)
      /\ executions' = <<>>
      /\ cur' = [symbol |-> s, order_id |-> order.order_id, request |-> req]
      /\ pc' = "matching"

canMatchMut(bid, ask) == bid.price = 0 \/ ask.price = 0 \/ bid.price > ask.price
\* line 89
canMatch(bid, ask) == bid.price = 0 \/ ask.price = 0 \/ bid.price >= ask.price

\* an execution price that takes the buyer's limit when both orders have one
executionPriceMut(bid, ask) ==
  IF bid.price = 0 THEN ask.price ELSE bid.price
\* lines 97-105
executionPrice(bid, ask) ==
  IF bid.price = 0 THEN ask.price
  ELSE IF ask.price = 0 THEN bid.price
  ELSE ask.price

\* an execution quantity that leaves one unit of the smaller order unfilled
executionQuantityMut(bid, ask) ==
  Min(bid.quantity - bid.filled_quantity, ask.quantity - ask.filled_quantity) - 1
\* lines 108-111
executionQuantity(bid, ask) ==
  Min(bid.quantity - bid.filled_quantity, ask.quantity - ask.filled_quantity)

\* an event that carries the order's quantity instead of the execution's
ExecutedEventMut(o, side, q, p, s) ==
  [event_type |-> "ORDER_EXECUTED", order_id |-> o.order_id,
   stock_symbol |-> s, order_type |-> side,
   quantity |-> o.quantity, price |-> p, investor_id |-> o.investor_id]
\* lines 157-177
ExecutedEvent(o, side, q, p, s) ==
  [event_type |-> "ORDER_EXECUTED", order_id |-> o.order_id,
   stock_symbol |-> s, order_type |-> side,
   quantity |-> q, price |-> p, investor_id |-> o.investor_id]

\* the loop condition and the break of matchOrders (lines 77, 82, 89-93)
LoopContinues ==
  LET book == BookOf(orderBooks, cur.symbol)
  IN  /\ Len(book.bids) > 0
      /\ Len(book.asks) > 0
      /\ canMatch(orders[book.bids[1]], orders[book.asks[1]])

FillMut(o, q) ==
  [o EXCEPT !.filled_quantity = @ + q, !.status = "PARTIALLY_FILLED"]
\* lines 129-145: the order after q more units are filled
Fill(o, q) ==
  LET f == o.filled_quantity + q
  IN  [o EXCEPT !.filled_quantity = f,
                !.status = IF f >= o.quantity THEN "FILLED" ELSE "PARTIALLY_FILLED"]

\* one iteration of the while loop of matchOrders (lines 82-178)
MatchStep ==
  /\ pc = "matching"
  /\ LoopContinues
  /\ LET s    == cur.symbol
         book == orderBooks[s]
         bid  == orders[book.bids[1]]
         ask  == orders[book.asks[1]]
         p    == executionPrice(bid, ask)
         q    == executionQuantity(bid, ask)
         execution == [execution_id |-> execCount + 1,
                       buy_order_id |-> bid.order_id,
                       sell_order_id |-> ask.order_id,
                       stock_symbol |-> s, quantity |-> q, price |-> p,
                       buyer_id |-> bid.investor_id,
                       seller_id |-> ask.investor_id]
         \* bid and ask are distinct objects: the bid is updated, then the ask
         ords1 == [orders EXCEPT ![bid.order_id] = Fill(@, q)]
         ords2 == [ords1 EXCEPT ![ask.order_id] = Fill(@, q)]
     IN  /\ executions' = Append(executions, execution)
         /\ execCount' = execCount + 1
         /\ orders' = ords2
         /\ orderBooks' = [orderBooks EXCEPT ![s] =
              [bids |-> IF ords2[bid.order_id].status = "FILLED"
                        THEN Tail(book.bids) ELSE book.bids,
               asks |-> IF ords2[ask.order_id].status = "FILLED"
                        THEN Tail(book.asks) ELSE book.asks]]
         /\ events' = events \o <<ExecutedEvent(bid, "BUY", q, p, s),
                                  ExecutedEvent(ask, "SELL", q, p, s)>>
         /\ streams' = emitEvent(emitEvent(streams, ExecutedEvent(bid, "BUY", q, p, s),
                                            Len(events) + 1),
                                  ExecutedEvent(ask, "SELL", q, p, s), Len(events) + 2)
  /\ UNCHANGED <<pc, cur, uuid>>
  /\ UNCHANGED <<marketVars, investorVars, priceVars, analyticsVars, stockVars, reply>>
  /\ UNCHANGED <<subscriberVars, webhookVars>>

CancelGuardMut(order) == FALSE
\* line 197: the order is already terminal
CancelGuard(order) == order.status = "FILLED" \/ order.status = "CANCELED"

CanceledEvent(o) ==
  [event_type |-> "ORDER_CANCELED", order_id |-> o.order_id,
   stock_symbol |-> o.stock_symbol, order_type |-> o.order_type,
   quantity |-> o.quantity - o.filled_quantity, price |-> o.price,
   investor_id |-> o.investor_id]

\* a cancel that leaves the order in the book
RemoveMut(s, id) == s
\* lines 205, 208: filter(id => id !== orderId)
Remove(s, id) == SelectSeq(s, LAMBDA x : x # id)

\* no cancelOrder / setMarketState call has been answered since the last order
NoReply == [op |-> "", order_id |-> 0, investor_id |-> "", success |-> FALSE,
            state |-> 0, message |-> ""]

\* a cancelOrder that does not compare the caller with the order's investor
cancelResultMut(orderId, investorId) ==
  IF orderId \notin DOMAIN orders THEN "Order not found"
  ELSE IF CancelGuard(orders[orderId]) THEN "Order already terminal"
  ELSE "OK"
\* the result cancelOrder returns (lines 186-199, 228)
cancelResult(orderId, investorId) ==
  IF orderId \notin DOMAIN orders THEN "Order not found"
  ELSE IF orders[orderId].investor_id # investorId THEN "Unauthorized"
  ELSE IF CancelGuard(orders[orderId]) THEN "Order already terminal"
  ELSE "OK"

\* MatchingEngine.cancelOrder (lines 186-229)
cancelOrder(orderId, investorId) ==
  /\ pc = "idle"
  /\ IF cancelResult(orderId, investorId) # "OK"
     THEN UNCHANGED <<orders, orderBooks, events, streams>>
     ELSE LET order == orders[orderId]
              s     == order.stock_symbol
          IN  /\ orderBooks' =
                   IF s \in DOMAIN orderBooks
                   THEN [orderBooks EXCEPT ![s] =
                          IF IsBuy(order.order_type)
                          THEN [@ EXCEPT !.bids = Remove(@, orderId)]
                          ELSE [@ EXCEPT !.asks = Remove(@, orderId)]]
                   ELSE orderBooks
              /\ orders' = [orders EXCEPT ![orderId].status = "CANCELED"]
              /\ events' = Append(events, CanceledEvent(order))
              /\ streams' = emitEvent(streams, CanceledEvent(order), Len(events) + 1)
  /\ UNCHANGED <<pc, cur, executions, uuid, execCount>>
  /\ UNCHANGED <<marketVars, investorVars, priceVars, analyticsVars, stockVars>>
  /\ UNCHANGED <<subscriberVars, webhookVars>>

\* an aggregation that adds up the quantities ordered, filled or not
RECURSIVE aggregateOrdersMut(_, _)
aggregateOrdersMut(side, priceMap) ==
  IF side = <<>> THEN priceMap
  ELSE LET order == orders[Head(side)]
           at    == {i \in 1..Len(priceMap) : priceMap[i].price = order.price}
       IN  aggregateOrdersMut(Tail(side),
             IF at # {}
             THEN [i \in 1..Len(priceMap) |->
                     IF i \in at
                     THEN [priceMap[i] EXCEPT !.quantity = @ + order.quantity,
                                              !.order_count = @ + 1]
                     ELSE priceMap[i]]
             ELSE Append(priceMap, [price |-> order.price,
                                    quantity |-> order.quantity,
                                    order_count |-> 1]))
\* aggregateOrders (lines 274-295): the orders of one side are walked in book
\* order; priceMap is a Map, whose values come out in the order their keys
\* were first set
RECURSIVE aggregateOrders(_, _)
aggregateOrders(side, priceMap) ==
  IF side = <<>> THEN priceMap
  ELSE LET order == orders[Head(side)]
           remainingQty == order.quantity - order.filled_quantity
           at    == {i \in 1..Len(priceMap) : priceMap[i].price = order.price}
       IN  aggregateOrders(Tail(side),
             IF at # {}
             THEN [i \in 1..Len(priceMap) |->
                     IF i \in at
                     THEN [priceMap[i] EXCEPT !.quantity = @ + remainingQty,
                                              !.order_count = @ + 1]
                     ELSE priceMap[i]]
             ELSE Append(priceMap, [price |-> order.price,
                                    quantity |-> remainingQty,
                                    order_count |-> 1]))

\* getOrderBook (lines 253-269)
getOrderBook(stockSymbol) ==
  IF stockSymbol \notin DOMAIN orderBooks
  THEN [bids |-> <<>>, asks |-> <<>>]
  ELSE [bids |-> aggregateOrders(orderBooks[stockSymbol].bids, <<>>),
        asks |-> aggregateOrders(orderBooks[stockSymbol].asks, <<>>)]

\* ------------------------------------------------- PortfolioManager
\* a validation that never looks at the holding of a seller
validateOrderMut(investorId, stockSymbol, orderType, quantity, price) ==
  orderType = "BUY" => ~(investors[investorId] < quantity * price)
\* a validation that rejects a BUY whose cost equals the balance
validateOrderStrictMut(investorId, stockSymbol, orderType, quantity, price) ==
  IF orderType = "BUY"
  THEN investors[investorId] > quantity * price
  ELSE ~(portfolio[<<investorId, stockSymbol>>].quantity < quantity)
\* validateOrder (portfolio-manager.js:299-355): TRUE when the order is valid
validateOrder(investorId, stockSymbol, orderType, quantity, price) ==
  IF orderType = "BUY"
  THEN ~(investors[investorId] < quantity * price)
  ELSE ~(portfolio[<<investorId, stockSymbol>>].quantity < quantity)

RECURSIVE GCD(_, _)
GCD(a, b) == IF b = 0 THEN a ELSE GCD(b, a % b)

\* a price that is not a whole number is kept as a reduced fraction <<n, d>>
Frac(n, d) == LET g == GCD(n, d) IN <<n \div g, d \div g>>

\* lines 175-176: ((quantity * average_price) + (quantityChange * price)) / newQuantity
newAveragePrice(existing, quantityChange, price) ==
  LET n == existing.average_price[1]
      d == existing.average_price[2]
  IN  Frac(existing.quantity * n + quantityChange * price * d,
           d * (existing.quantity + quantityChange))

\* database.get returns undefined when no row matches
NoRow == [quantity |-> 0, average_price |-> <<0, 1>>]
Exists(row) == row # NoRow

\* an updatePortfolio that keeps an emptied holding as a row of quantity 0
portfolioStatementMut(existing, quantityChange, price) ==
  IF quantityChange > 0
  THEN IF Exists(existing)
       THEN [op |-> "UPDATE", quantity |-> existing.quantity + quantityChange,
             average_price |-> newAveragePrice(existing, quantityChange, price)]
       ELSE [op |-> "INSERT", quantity |-> quantityChange,
             average_price |-> <<price, 1>>]
  ELSE IF ~Exists(existing)
       THEN [op |-> "FAIL", quantity |-> 0, average_price |-> <<0, 1>>]
       ELSE IF existing.quantity + quantityChange < 0
            THEN [op |-> "FAIL", quantity |-> 0, average_price |-> <<0, 1>>]
            ELSE [op |-> "UPDATE", quantity |-> existing.quantity + quantityChange,
                  average_price |-> existing.average_price]
\* The statement updatePortfolio issues after reading `existing`
\* (lines 171-216), or the early failure it returns.
portfolioStatement(existing, quantityChange, price) ==
  IF quantityChange > 0
  THEN IF Exists(existing)
       THEN [op |-> "UPDATE", quantity |-> existing.quantity + quantityChange,
             average_price |-> newAveragePrice(existing, quantityChange, price)]
       ELSE [op |-> "INSERT", quantity |-> quantityChange,
             average_price |-> <<price, 1>>]
  ELSE IF ~Exists(existing)
       THEN [op |-> "FAIL", quantity |-> 0, average_price |-> <<0, 1>>]
       ELSE IF existing.quantity + quantityChange < 0
            THEN [op |-> "FAIL", quantity |-> 0, average_price |-> <<0, 1>>]
            ELSE IF existing.quantity + quantityChange = 0
                 THEN [op |-> "DELETE", quantity |-> 0, average_price |-> <<0, 1>>]
                 ELSE [op |-> "UPDATE", quantity |-> existing.quantity + quantityChange,
                       average_price |-> existing.average_price]

Finish(c, ok) == [c EXCEPT !.pc = "done", !.success = ok]

\* calls the price and analytics services have not handled yet
Backlog == Len(priceCalls) + Len(analyticsCalls)

\* The investor service starts its handlers in the order the calls arrive,
\* and works on at most MaxActive of them at once.
Active == {n \in 1..Len(investorCalls) : investorCalls[n].pc \in {"read", "written"}}
MayStart(n) ==
  /\ Backlog <= MaxBacklog
  /\ Cardinality(Active) < MaxActive
  /\ \A m \in 1..(n - 1) : investorCalls[m].pc # "sent"

\* updatePortfolio, first await: SELECT the holding (lines 166-204)
UpdatePortfolioGet(n) ==
  /\ pc = "idle"
  /\ n \in 1..Len(investorCalls)
  /\ investorCalls[n].kind = "UpdatePortfolio"
  /\ investorCalls[n].pc = "sent"
  /\ MayStart(n)
  /\ LET c    == investorCalls[n]
         st   == portfolioStatement(portfolio[<<c.investor_id, c.stock_symbol>>],
                                    c.quantity_change, c.price)
     IN  investorCalls' = [investorCalls EXCEPT ![n] =
           IF st.op = "FAIL" THEN Finish(c, FALSE)
           ELSE [c EXCEPT !.pc = "read", !.statement = st]]
  /\ UNCHANGED <<investors, portfolio, transactions>>
  /\ UNCHANGED <<engineVars, marketVars, priceVars, analyticsVars, stockVars, reply>>
  /\ UNCHANGED <<busVars, webhookVars>>

\* updatePortfolio, second await: the UPDATE, INSERT or DELETE runs
\* (lines 178-216); an INSERT of a row that exists by now breaks
\* UNIQUE(investor_id, stock_symbol) and the call fails (lines 243-249)
UpdatePortfolioRun(n) ==
  /\ pc = "idle"
  /\ n \in 1..Len(investorCalls)
  /\ investorCalls[n].kind = "UpdatePortfolio"
  /\ investorCalls[n].pc = "read"
  /\ LET c   == investorCalls[n]
         k   == <<c.investor_id, c.stock_symbol>>
         st  == c.statement
         row == [quantity |-> st.quantity, average_price |-> st.average_price]
     IN  CASE st.op = "INSERT" /\ Exists(portfolio[k]) ->
                /\ investorCalls' = [investorCalls EXCEPT ![n] = Finish(c, FALSE)]
                /\ UNCHANGED portfolio
           [] st.op = "INSERT" /\ ~Exists(portfolio[k]) ->
                /\ investorCalls' = [investorCalls EXCEPT ![n].pc = "written"]
                /\ portfolio' = [portfolio EXCEPT ![k] = row]
           \* a purchase sets quantity and average_price (line 179), a sale
           \* sets quantity alone (line 213)
           [] st.op = "UPDATE" ->
                /\ investorCalls' = [investorCalls EXCEPT ![n].pc = "written"]
                /\ portfolio' = IF ~Exists(portfolio[k]) THEN portfolio
                                ELSE IF c.quantity_change > 0
                                THEN [portfolio EXCEPT ![k] = row]
                                ELSE [portfolio EXCEPT ![k].quantity = st.quantity]
           [] st.op = "DELETE" ->
                /\ investorCalls' = [investorCalls EXCEPT ![n].pc = "written"]
                /\ portfolio' = [portfolio EXCEPT ![k] = NoRow]
  /\ UNCHANGED <<investors, transactions>>
  /\ UNCHANGED <<engineVars, marketVars, priceVars, analyticsVars, stockVars, reply>>
  /\ UNCHANGED <<busVars, webhookVars>>

Abs(x) == IF x < 0 THEN 0 - x ELSE x

\* updatePortfolio, third await: the transaction row (lines 219-242)
UpdatePortfolioRecord(n) ==
  /\ pc = "idle"
  /\ n \in 1..Len(investorCalls)
  /\ investorCalls[n].kind = "UpdatePortfolio"
  /\ investorCalls[n].pc = "written"
  /\ LET c == investorCalls[n]
     IN  /\ transactions' = transactions \cup
              {[transaction_id |-> n,
                investor_id |-> c.investor_id, stock_symbol |-> c.stock_symbol,
                type |-> IF c.quantity_change > 0 THEN "BUY" ELSE "SELL",
                quantity |-> Abs(c.quantity_change), price |-> c.price,
                total_amount |-> Abs(c.quantity_change) * c.price]}
         /\ investorCalls' = [investorCalls EXCEPT ![n] = Finish(c, TRUE)]
  /\ UNCHANGED <<investors, portfolio>>
  /\ UNCHANGED <<engineVars, marketVars, priceVars, analyticsVars, stockVars, reply>>
  /\ UNCHANGED <<busVars, webhookVars>>

\* a balance test that lets every debit through
insufficientMut(newBalance) == FALSE
\* line 82
insufficient(newBalance) == newBalance < 0

\* updateBalance, first await: getInvestor, then the test of newBalance
\* (lines 79-88)
UpdateBalanceGet(n) ==
  /\ pc = "idle"
  /\ n \in 1..Len(investorCalls)
  /\ investorCalls[n].kind = "UpdateBalance"
  /\ investorCalls[n].pc = "sent"
  /\ MayStart(n)
  /\ LET c          == investorCalls[n]
         newBalance == investors[c.investor_id] + c.amount
     IN  investorCalls' = [investorCalls EXCEPT ![n] =
           IF insufficient(newBalance) THEN Finish(c, FALSE)
           ELSE [c EXCEPT !.pc = "read", !.newBalance = newBalance]]
  /\ UNCHANGED <<investors, portfolio, transactions>>
  /\ UNCHANGED <<engineVars, marketVars, priceVars, analyticsVars, stockVars, reply>>
  /\ UNCHANGED <<busVars, webhookVars>>

\* updateBalance, second await: UPDATE investors SET balance (lines 90-107)
UpdateBalanceRun(n) ==
  /\ pc = "idle"
  /\ n \in 1..Len(investorCalls)
  /\ investorCalls[n].kind = "UpdateBalance"
  /\ investorCalls[n].pc = "read"
  /\ LET c == investorCalls[n]
     IN  /\ investors' = [investors EXCEPT ![c.investor_id] = c.newBalance]
         /\ investorCalls' = [investorCalls EXCEPT ![n] = Finish(c, TRUE)]
  /\ UNCHANGED <<portfolio, transactions>>
  /\ UNCHANGED <<engineVars, marketVars, priceVars, analyticsVars, stockVars, reply>>
  /\ UNCHANGED <<busVars, webhookVars>>

\* ------------------------------------------------- market service
\* server.js:63 and :100  (order_type === 0 ? 'BUY' : 'SELL')
sideSent(order_type) == IF order_type = "0" THEN "BUY" ELSE "SELL"

\* server.js:112  (order_type === 0)
isBuyOrder(order_type) == order_type = "0"

\* Math.floor(quantity * 0.3)  (server.js:123, 135)
reducedVolume(quantity) == (quantity * 3) \div 10

Rejected(r) == [r EXCEPT !.pc = "done", !.status = "REJECTED"]

\* placeOrder up to the ValidateOrder call (server.js:44-70), for a request
\* whose order_type is one of orderTypes
placeOrder(orderTypes) ==
  /\ pc = "idle"
  /\ Backlog <= MaxBacklog
  /\ Len(requests) < MaxOrders
  /\ Cardinality({n \in 1..Len(requests) : requests[n].pc # "done"}) < MaxInFlight
  /\ \E inv \in Investors, sym \in Symbols, ot \in orderTypes,
        q \in Quantities, p \in Prices :
       LET r == [investor_id |-> inv, stock_symbol |-> sym, order_type |-> ot,
                 quantity |-> q, price |-> p, pc |-> "validating",
                 valid |-> FALSE, order_id |-> 0, created_at |-> 0,
                 status |-> ""]
       IN  requests' = Append(requests,
                              IF marketState # "OPEN" THEN Rejected(r) ELSE r)
  /\ UNCHANGED <<marketState, ordersTable, clock>>
  /\ UNCHANGED <<engineVars, investorVars, priceVars, analyticsVars, stockVars, reply>>
  /\ UNCHANGED <<busVars, webhookVars>>

\* a PlaceOrder request whose order_type arrives as a number
PlaceOrder == placeOrder(RequestOrderTypes)

\* the investor service answers ValidateOrder (investor-service/server.js:188-199)
ValidateOrder(n) ==
  /\ pc = "idle"
  /\ n \in 1..Len(requests)
  /\ requests[n].pc = "validating"
  /\ LET r == requests[n]
     IN  requests' = [requests EXCEPT ![n] =
           [r EXCEPT !.pc = "validated",
                     !.valid = validateOrder(r.investor_id, r.stock_symbol,
                                 sideSent(r.order_type), r.quantity, r.price)]]
  /\ UNCHANGED <<marketState, ordersTable, clock>>
  /\ UNCHANGED <<engineVars, investorVars, priceVars, analyticsVars, stockVars, reply>>
  /\ UNCHANGED <<busVars, webhookVars>>

\* placeOrder from the validation's answer to the INSERT INTO orders
\* (server.js:72-102), with t the value Date.now() returns at line 91
placeOrderCreate(n, t) ==
  /\ pc = "idle"
  /\ n \in 1..Len(requests)
  /\ requests[n].pc = "validated"
  /\ LET r == requests[n]
     IN  IF ~r.valid
         THEN /\ requests' = [requests EXCEPT ![n] = Rejected(r)]
              /\ UNCHANGED <<ordersTable, clock, uuid>>
         ELSE   /\ clock' = t
                /\ uuid' = uuid + 1
                /\ requests' = [requests EXCEPT ![n] =
                     [r EXCEPT !.pc = "inserting", !.order_id = uuid + 1,
                               !.created_at = t]]
                /\ ordersTable' = Append(ordersTable,
                     [order_id |-> uuid + 1, investor_id |-> r.investor_id,
                      stock_symbol |-> r.stock_symbol,
                      order_type |-> sideSent(r.order_type),
                      quantity |-> r.quantity, price |-> r.price,
                      filled_quantity |-> 0, status |-> "PENDING"])
  /\ UNCHANGED <<orders, orderBooks, events, pc, cur, executions, execCount>>
  /\ UNCHANGED <<marketState, investorVars, priceVars, analyticsVars, stockVars, reply>>
  /\ UNCHANGED <<busVars, webhookVars>>

\* placeOrder's creation step when the orders of a behaviour are created in
\* different milliseconds
PlaceOrderCreate(n) == placeOrderCreate(n, clock + 1)

\* Date.now() counts milliseconds: an order created in the millisecond of the
\* order before it gets the same created_at
PlaceOrderCreateNow(n) == \E t \in {clock, clock + 1} : placeOrderCreate(n, t)

\* the order object placeOrder builds (server.js:82-93)
NewOrder(id, inv, sym, ot, q, p, t) ==
  [order_id |-> id, investor_id |-> inv, stock_symbol |-> sym,
   order_type |-> ot, quantity |-> q, price |-> p,
   filled_quantity |-> 0, status |-> "PENDING", created_at |-> t]

\* placeOrder after the INSERT: matchingEngine.addOrder(order) (server.js:105)
PlaceOrderAdmit(n) ==
  /\ pc = "idle"
  /\ n \in 1..Len(requests)
  /\ requests[n].pc = "inserting"
  /\ LET r == requests[n]
     IN  addOrder(NewOrder(r.order_id, r.investor_id, r.stock_symbol,
                           r.order_type, r.quantity, r.price, r.created_at), n)
  /\ requests' = [requests EXCEPT ![n].pc = "admitted"]
  /\ UNCHANGED <<uuid, execCount, marketState, ordersTable, clock>>
  /\ UNCHANGED <<investorVars, priceVars, analyticsVars, stockVars, reply>>
  /\ UNCHANGED <<subscriberVars, webhookVars>>

\* the direction processExecution sends to the price service (server.js:191-207)
isBuyPressure(buyOrder, sellOrder) ==
  IF buyOrder.price = 0 /\ sellOrder.price # 0 THEN TRUE
  ELSE IF sellOrder.price = 0 /\ buyOrder.price # 0 THEN FALSE
  ELSE buyOrder.created_at > sellOrder.created_at

PortfolioCall(e, inv, qc) ==
  [kind |-> "UpdatePortfolio", execution_id |-> e.execution_id,
   investor_id |-> inv, stock_symbol |-> e.stock_symbol,
   quantity_change |-> qc, price |-> e.price, amount |-> 0,
   pc |-> "sent", success |-> FALSE, newBalance |-> 0,
   statement |-> [op |-> "", quantity |-> 0, average_price |-> <<0, 1>>]]

BalanceCall(e, inv, amt) ==
  [kind |-> "UpdateBalance", execution_id |-> e.execution_id,
   investor_id |-> inv, stock_symbol |-> e.stock_symbol,
   quantity_change |-> 0, price |-> e.price, amount |-> amt,
   pc |-> "sent", success |-> FALSE, newBalance |-> 0,
   statement |-> [op |-> "", quantity |-> 0, average_price |-> <<0, 1>>]]

\* the four calls processExecution makes on the investor service, in the
\* order it makes them (server.js:219-257)
settlementCalls(e) ==
  << PortfolioCall(e, e.buyer_id, e.quantity),
     BalanceCall(e, e.buyer_id, 0 - (e.quantity * e.price)),
     PortfolioCall(e, e.seller_id, 0 - e.quantity),
     BalanceCall(e, e.seller_id, e.quantity * e.price) >>

\* server.js:210-217
executionPriceCall(e) ==
  [kind |-> "UpdatePrice", stock_symbol |-> e.stock_symbol,
   trade_volume |-> e.quantity, execution_id |-> e.execution_id,
   is_buy |-> isBuyPressure(orders[e.buy_order_id], orders[e.sell_order_id])]

\* server.js:109-141: the call made when the order executed nothing
placementPriceCall(r) ==
  [kind |-> IF r.price = 0 THEN "GetPrice" ELSE "UpdatePrice",
   stock_symbol |-> r.stock_symbol,
   trade_volume |-> reducedVolume(r.quantity), execution_id |-> 0,
   is_buy |-> isBuyOrder(r.order_type)]

\* server.js:260-276
tradeRecords(e) ==
  << [stock_symbol |-> e.stock_symbol, order_type |-> "BUY",
      quantity |-> e.quantity, price |-> e.price, investor_id |-> e.buyer_id,
      execution_id |-> e.execution_id],
     [stock_symbol |-> e.stock_symbol, order_type |-> "SELL",
      quantity |-> e.quantity, price |-> e.price, investor_id |-> e.seller_id,
      execution_id |-> e.execution_id] >>

RECURSIVE Flatten(_)
Flatten(ss) == IF ss = <<>> THEN <<>> ELSE ss[1] \o Flatten(Tail(ss))

\* placeOrder once addOrder has returned: the placement price update, then
\* processExecution for every execution, then the reply (server.js:107-156,
\* 178-289).  processExecution awaits nothing, so all of it runs in the turn
\* of the event loop that ran addOrder.
PlaceOrderSettle ==
  /\ pc = "matching"
  /\ cur.request # 0
  /\ ~LoopContinues
  /\ LET r == requests[cur.request]
         n == Len(executions)
     IN  /\ priceCalls' = priceCalls
              \o (IF n = 0 THEN <<placementPriceCall(r)>> ELSE <<>>)
              \o [i \in 1..n |-> executionPriceCall(executions[i])]
         /\ investorCalls' = investorCalls
              \o Flatten([i \in 1..n |-> settlementCalls(executions[i])])
         /\ analyticsCalls' = analyticsCalls
              \o Flatten([i \in 1..n |-> tradeRecords(executions[i])])
         /\ requests' = [requests EXCEPT ![cur.request] =
              [r EXCEPT !.pc = "done", !.status = orders[r.order_id].status]]
  /\ pc' = "idle"
  /\ cur' = NoCall
  /\ UNCHANGED <<orders, orderBooks, events, executions, uuid, execCount>>
  /\ UNCHANGED <<marketState, ordersTable, clock>>
  /\ UNCHANGED <<investors, portfolio, transactions, price_history, analytics_trades, stockVars, reply>>
  /\ UNCHANGED performance
  /\ UNCHANGED <<busVars, webhookVars>>

\* a state map with CLOSED and PAUSED exchanged
stateMapMut(state) ==
  CASE state = 0 -> "OPEN" [] state = 1 -> "PAUSED" [] state = 2 -> "CLOSED"
    [] OTHER -> "OPEN"
\* stateMap[state] || 'OPEN'  (server.js:385-386)
stateMap(state) ==
  CASE state = 0 -> "OPEN" [] state = 1 -> "CLOSED" [] state = 2 -> "PAUSED"
    [] OTHER -> "OPEN"

\* the values a SetMarketState request may carry: the enum and one beyond it
StateCodes == 0..3

\* setMarketState (server.js:382-394)
SetMarketState ==
  /\ pc = "idle"
  /\ \E state \in StateCodes :
       /\ marketState' = stateMap(state)
       /\ reply' = [NoReply EXCEPT !.op = "setMarketState", !.state = state,
                                   !.success = TRUE,
                                   !.message = stateMap(state)]
  /\ UNCHANGED <<requests, ordersTable, clock>>
  /\ UNCHANGED <<engineVars, investorVars, priceVars, analyticsVars, stockVars>>
  /\ UNCHANGED <<busVars, webhookVars>>

\* ------------------------------------------------- price service
\* GetPrice answers with the stock's row and placeOrder's callback sends the
\* UpdatePrice call (server.js:118-129)
GetPrice ==
  /\ pc = "idle"
  /\ priceCalls # <<>>
  /\ priceCalls[1].kind = "GetPrice"
  /\ priceCalls' = Append(Tail(priceCalls), [priceCalls[1] EXCEPT !.kind = "UpdatePrice"])
  /\ UNCHANGED price_history
  /\ UNCHANGED <<engineVars, marketVars, investorVars, analyticsVars, stockVars, reply>>
  /\ UNCHANGED <<busVars, webhookVars>>

\* PriceManager.updatePrice (price-manager.js:118-190): the stock's row is
\* rewritten and a price_history row is appended.  The price itself is a
\* floating-point number driven by Math.random and is not represented.
UpdatePrice ==
  /\ pc = "idle"
  /\ priceCalls # <<>>
  /\ priceCalls[1].kind = "UpdatePrice"
  /\ price_history' = Append(price_history,
       [stock_symbol |-> priceCalls[1].stock_symbol,
        volume |-> priceCalls[1].trade_volume,
        is_buy |-> priceCalls[1].is_buy,
        execution_id |-> priceCalls[1].execution_id])
  /\ priceCalls' = Tail(priceCalls)
  /\ UNCHANGED <<engineVars, marketVars, investorVars, analyticsVars, stockVars, reply>>
  /\ UNCHANGED <<busVars, webhookVars>>

\* ------------------------------------------------- analytics service
\* AnalyticsEngine.recordTrade (analytics-engine.js:10-25)
RecordTrade ==
  /\ pc = "idle"
  /\ analyticsCalls # <<>>
  /\ analytics_trades' = Append(analytics_trades, analyticsCalls[1])
  /\ analyticsCalls' = Tail(analyticsCalls)
  /\ UNCHANGED <<engineVars, marketVars, investorVars, priceVars, stockVars, reply>>
  /\ UNCHANGED <<busVars, webhookVars, performance>>

\* getInvestorPerformance has not been asked yet
NoPerformance == [investor_id |-> "", total_trades |-> 0,
                  average_trade_size |-> <<0, 1>>, risk_level |-> ""]

\* a number kept as the fraction f is greater than the whole number x
Greater(f, x) == f[1] > x * f[2]

\* a classification that counts the two sizes 10000 and 5000 in
riskLevelMut(averageTradeSize, length) ==
  IF ~(averageTradeSize[1] < 10000 * averageTradeSize[2]) \/ length > 50
  THEN "HIGH"
  ELSE IF ~(averageTradeSize[1] < 5000 * averageTradeSize[2]) \/ length > 20
  THEN "MEDIUM"
  ELSE "LOW"
\* analytics-engine.js:278-283
riskLevel(averageTradeSize, length) ==
  IF Greater(averageTradeSize, 10000) \/ length > 50 THEN "HIGH"
  ELSE IF Greater(averageTradeSize, 5000) \/ length > 20 THEN "MEDIUM"
  ELSE "LOW"

RECURSIVE totalTradeValue(_)
\* transactions.reduce((sum, tx) => sum + tx.total_amount, 0) (line 261)
totalTradeValue(txs) ==
  IF txs = {} THEN 0
  ELSE LET tx == CHOOSE x \in txs : TRUE
       IN  tx.total_amount + totalTradeValue(txs \ {tx})

\* getInvestorPerformance (analytics-engine.js:171-299): the fields of its
\* answer that depend on the number and the sizes of the transactions
getInvestorPerformance(investorId) ==
  LET txs == {tx \in transactions : tx.investor_id = investorId}
      length == Cardinality(txs)
      averageTradeSize == Frac(totalTradeValue(txs), length)
  IN  IF length = 0
      THEN [investor_id |-> investorId, total_trades |-> 0,
            average_trade_size |-> <<0, 1>>, risk_level |-> "LOW"]
      ELSE [investor_id |-> investorId, total_trades |-> length,
            average_trade_size |-> averageTradeSize,
            risk_level |-> riskLevel(averageTradeSize, length)]

\* ------------------------------------------------- WebhookManager
\* the rows of the webhooks table as registered, with the events each asks
\* for; the third has been set inactive
Webhooks ==
  (1 :> [events |-> {"ORDER_EXECUTED"}, active |-> TRUE])
  @@ (2 :> [events |-> {"ORDER_EXECUTED", "PRICE_UPDATE"}, active |-> TRUE])
  @@ (3 :> [events |-> {"*"}, active |-> FALSE])

EventTypes == {"ORDER_EXECUTED", "PRICE_UPDATE", "ORDER_CANCELED"}

\* a delivery is known by the dispatchEvent call and the webhook it is for
DeliveryIds == (1..MaxDispatches) \X (DOMAIN Webhooks)

NoDelivery == [id |-> <<0, 0>>, eventType |-> "", retries |-> 0]

\* a filter that knows no '*'
relevantWebhooksMut(eventType) ==
  {w \in DOMAIN webhooks : webhooks[w].active /\ eventType \in webhooks[w].events}
\* dispatchEvent's SELECT and filter (webhook-service/server.js:437-444)
relevantWebhooks(eventType) ==
  {w \in DOMAIN webhooks :
     /\ webhooks[w].active
     /\ (eventType \in webhooks[w].events \/ "*" \in webhooks[w].events)}

\* webhooks.filter(...).map(...) keeps the order of the rows (lines 441-456)
RECURSIVE deliveries(_, _, _)
deliveries(ws, n, eventType) ==
  IF ws = {} THEN <<>>
  ELSE LET w == CHOOSE x \in ws : \A y \in ws : x <= y
       IN  <<[id |-> <<n, w>>, eventType |-> eventType, retries |-> 0]>>
             \o deliveries(ws \ {w}, n, eventType)

\* a loop that leaves isProcessing set when it ends
processDeliveryQueueMut(q) ==
  IF q # <<>>
  THEN /\ deliveryQueue' = Tail(q)
       /\ posting' = Head(q)
       /\ posts' = [posts EXCEPT ![Head(q).id] = @ + 1]
       /\ isProcessing' = TRUE
  ELSE /\ deliveryQueue' = q
       /\ posting' = NoDelivery
       /\ posts' = posts
       /\ isProcessing' = TRUE
\* processDeliveryQueue (lines 479-492) from the test of the loop to the
\* next await: with the queue q, either the next delivery is shifted and its
\* axios.post made (deliverWebhook, lines 497-510), or the loop ends
processDeliveryQueue(q) ==
  IF q # <<>>
  THEN /\ deliveryQueue' = Tail(q)
       /\ posting' = Head(q)
       /\ posts' = [posts EXCEPT ![Head(q).id] = @ + 1]
       /\ isProcessing' = TRUE
  ELSE /\ deliveryQueue' = q
       /\ posting' = NoDelivery
       /\ posts' = posts
       /\ isProcessing' = FALSE

\* line 538: retries < this.maxRetries
mayRetry(retries) == retries < maxRetries

\* ---------------------------------------------- the engine driven directly
\* the seed: every investor starts with SeedCash, and B holds SeedShares of
\* every symbol bought at price 1
SeedBalance == [i \in Investors |-> SeedCash]
\* initializeStock (price-manager.js:40-49): all four prices start equal
SeedStocks ==
  [s \in Symbols |-> [current_price |-> SeedPrice, open_price |-> SeedPrice,
                      high_price |-> SeedPrice, low_price |-> SeedPrice]]
SeedPortfolio ==
  [k \in Investors \X Symbols |->
     IF k[1] = "B" THEN [quantity |-> SeedShares, average_price |-> <<1, 1>>]
     ELSE NoRow]

Init ==
  /\ orders = <<>>
  /\ orderBooks = <<>>
  /\ events = <<>>
  /\ pc = "idle"
  /\ cur = NoCall
  /\ executions = <<>>
  /\ uuid = 0
  /\ execCount = 0
  /\ clock = 0
  /\ marketState = "OPEN"
  /\ requests = <<>>
  /\ ordersTable = <<>>
  /\ investors = SeedBalance
  /\ portfolio = SeedPortfolio
  /\ transactions = {}
  /\ investorCalls = <<>>
  /\ priceCalls = <<>>
  /\ price_history = <<>>
  /\ analyticsCalls = <<>>
  /\ analytics_trades = <<>>
  /\ performance = NoPerformance
  /\ stocks = SeedStocks
  /\ priceHandlers = <<>>
  /\ priceEvents = <<>>
  /\ reply = NoReply
  /\ eventSubscribers = <<>>
  /\ priceSubscribers = <<>>
  /\ streams = [s \in StreamIds |-> NoStream]
  /\ deliveryQueue = <<>>
  /\ isProcessing = FALSE
  /\ posting = NoDelivery
  /\ timers = {}
  /\ posts = [d \in DeliveryIds |-> 0]
  /\ dispatched = 0
  /\ webhooks = Webhooks

\* a caller admits a fresh, well-formed order
AddOrder ==
  /\ pc = "idle"
  /\ uuid < MaxOrders
  /\ \E inv \in Investors, sym \in Symbols, ot \in EngineOrderTypes,
        q \in Quantities, p \in Prices :
       addOrder(NewOrder(uuid + 1, inv, sym, ot, q, p, clock), 0)
  /\ uuid' = uuid + 1
  /\ reply' = NoReply
  /\ UNCHANGED execCount
  /\ UNCHANGED <<marketVars, investorVars, priceVars, analyticsVars, stockVars>>
  /\ UNCHANGED <<subscriberVars, webhookVars>>

\* matchOrders returns `executions` to addOrder's caller (lines 77-79, 91-93, 180)
MatchReturn ==
  /\ pc = "matching"
  /\ cur.request = 0
  /\ ~LoopContinues
  /\ pc' = "idle"
  /\ cur' = NoCall
  /\ UNCHANGED <<orders, orderBooks, events, executions, uuid, execCount>>
  /\ UNCHANGED <<marketVars, investorVars, priceVars, analyticsVars, stockVars, reply>>
  /\ UNCHANGED <<busVars, webhookVars>>

CancelOrder ==
  /\ \E id \in 1..MaxOrders, inv \in Investors : cancelOrder(id, inv)
  /\ UNCHANGED reply

Next == AddOrder \/ MatchStep \/ MatchReturn \/ CancelOrder

Spec == Init /\ [][Next]_vars

\* ------------------------------- the services driven by PlaceOrder requests
InvestorStep ==
  \E n \in 1..(4 * MaxOrders) :
    \/ UpdatePortfolioGet(n)
    \/ UpdatePortfolioRun(n)
    \/ UpdatePortfolioRecord(n)
    \/ UpdateBalanceGet(n)
    \/ UpdateBalanceRun(n)

MarketStep ==
  \/ PlaceOrder
  \/ \E n \in 1..MaxOrders : ValidateOrder(n) \/ PlaceOrderCreate(n) \/ PlaceOrderAdmit(n)
  \/ MatchStep
  \/ PlaceOrderSettle

NextMarket ==
  MarketStep \/ InvestorStep \/ GetPrice \/ UpdatePrice \/ RecordTrade

SpecMarket == Init /\ [][NextMarket]_vars


\* ------------------------- the engine with cancels sent to the market service
\* cancelOrder of the market service (server.js:294-307): the engine's result
\* is the answer
CancelOrderCall ==
  \E order_id \in 1..MaxOrders, investor_id \in Investors :
    /\ cancelOrder(order_id, investor_id)
    /\ reply' = [NoReply EXCEPT
                   !.op = "cancelOrder", !.order_id = order_id,
                   !.investor_id = investor_id,
                   !.success = (cancelResult(order_id, investor_id) = "OK"),
                   !.message = cancelResult(order_id, investor_id)]

NextCancel == AddOrder \/ MatchStep \/ MatchReturn \/ CancelOrderCall

SpecCancel == Init /\ [][NextCancel]_vars

\* ------------------------------- the engine given an order it already knows
\* the number of addOrder calls made so far
Admissions == Cardinality({i \in 1..Len(events) : events[i].event_type = "ORDER_PLACED"})

FirstAddOrder == Admissions < MaxAdmissions /\ AddOrder

\* a caller passes an order object the engine already holds to addOrder
ReAddOrder ==
  /\ pc = "idle"
  /\ Admissions < MaxAdmissions
  /\ \E id \in DOMAIN orders : addOrder(orders[id], 0)
  /\ reply' = NoReply
  /\ UNCHANGED <<uuid, execCount>>
  /\ UNCHANGED <<marketVars, investorVars, priceVars, analyticsVars, stockVars>>
  /\ UNCHANGED <<subscriberVars, webhookVars>>

NextDup == FirstAddOrder \/ ReAddOrder \/ MatchStep \/ MatchReturn

SpecDup == Init /\ [][NextDup]_vars

\* ------------------------------------- the price service and its callers
\* Prices are floating-point numbers in the code; here they are whole numbers
\* of ticks (0.01), which keeps their order and Math.max / Math.min.
Max(a, b) == IF a >= b THEN a ELSE b

\* direction = isBuy ? 1 : -1  (price-manager.js:133)
direction(isBuy) == IF isBuy THEN 1 ELSE 0 - 1

\* The values priceChange * randomFactor can take (lines 134-138):
\* volumeImpact = Math.log(1 + tradeVolume / 100) is 0 for volume 0 and
\* positive for a positive volume; its size depends on volatilityFactor, on
\* the volume and on Math.random(), so every size up to MaxMove is possible.
PriceChanges(tradeVolume, isBuy) ==
  IF tradeVolume = 0 THEN {0}
  ELSE {direction(isBuy) * k : k \in 1..MaxMove}

\* a new price without the floor
newPriceMut(currentPrice, change) == currentPrice + change
\* line 139: Math.max(0.01, currentPrice + priceChange * randomFactor)
newPrice(currentPrice, change) == Max(PriceFloor, currentPrice + change)

\* processExecution's UpdatePrice call for the next execution reaches the
\* price service (part_007:70-73, server.js:210-217)
SendUpdatePrice ==
  /\ Len(priceHandlers) < MaxPriceCalls
  /\ \E sym \in Symbols, vol \in 0..MaxVolume, isBuy \in BOOLEAN :
       priceHandlers' = Append(priceHandlers,
         [stock_symbol |-> sym, trade_volume |-> vol, is_buy |-> isBuy,
          execution_id |-> Len(priceHandlers) + 1, pc |-> "sent",
          currentPrice |-> 0, newPrice |-> 0, highPrice |-> 0, lowPrice |-> 0])
  /\ UNCHANGED <<stocks, priceEvents, reply>>
  /\ UNCHANGED <<busVars, webhookVars>>
  /\ UNCHANGED <<engineVars, marketVars, investorVars, priceVars, analyticsVars>>

\* updatePrice, first await: SELECT the stock, then compute the new row
\* (price-manager.js:120-145)
UpdatePriceGet(n) ==
  /\ n \in 1..Len(priceHandlers)
  /\ priceHandlers[n].pc = "sent"
  /\ LET h     == priceHandlers[n]
         stock == stocks[h.stock_symbol]
     IN  \E change \in PriceChanges(h.trade_volume, h.is_buy) :
           LET np == newPrice(stock.current_price, change)
           IN  priceHandlers' = [priceHandlers EXCEPT ![n] =
                 [h EXCEPT !.pc = "read",
                           !.currentPrice = stock.current_price,
                           !.newPrice = np,
                           !.highPrice = Max(stock.high_price, np),
                           !.lowPrice = Min(stock.low_price, np)]]
  /\ UNCHANGED <<stocks, priceEvents, reply>>
  /\ UNCHANGED <<busVars, webhookVars>>
  /\ UNCHANGED <<engineVars, marketVars, investorVars, priceVars, analyticsVars>>

\* updatePrice, second await: UPDATE stocks (lines 148-153)
UpdatePriceRun(n) ==
  /\ n \in 1..Len(priceHandlers)
  /\ priceHandlers[n].pc = "read"
  /\ LET h == priceHandlers[n]
     IN  stocks' = [stocks EXCEPT ![h.stock_symbol] =
           [@ EXCEPT !.current_price = h.newPrice, !.high_price = h.highPrice,
                     !.low_price = h.lowPrice]]
  /\ priceHandlers' = [priceHandlers EXCEPT ![n].pc = "written"]
  /\ UNCHANGED <<priceEvents, reply>>
  /\ UNCHANGED <<busVars, webhookVars>>
  /\ UNCHANGED <<engineVars, marketVars, investorVars, priceVars, analyticsVars>>

\* updatePrice, third await: INSERT INTO price_history, then
\* notifyPriceUpdate publishes the update (lines 156-185)
UpdatePriceRecord(n) ==
  /\ n \in 1..Len(priceHandlers)
  /\ priceHandlers[n].pc = "written"
  /\ LET h == priceHandlers[n]
     IN  /\ price_history' = Append(price_history,
              [stock_symbol |-> h.stock_symbol, volume |-> h.trade_volume,
               is_buy |-> h.is_buy, execution_id |-> h.execution_id])
         /\ priceEvents' = Append(priceEvents,
              [stock_symbol |-> h.stock_symbol, price |-> h.newPrice,
               execution_id |-> h.execution_id])
         /\ streams' = notifyPriceUpdate(streams,
              [stock_symbol |-> h.stock_symbol, price |-> h.newPrice,
               execution_id |-> h.execution_id], Len(priceEvents) + 1)
  /\ priceHandlers' = [priceHandlers EXCEPT ![n].pc = "done"]
  /\ UNCHANGED <<stocks, priceCalls, reply>>
  /\ UNCHANGED <<subscriberVars, webhookVars>>
  /\ UNCHANGED <<engineVars, marketVars, investorVars, analyticsVars>>

\* resetDailyPrices (lines 261-271): one UPDATE over every stock
ResetDailyPrices ==
  /\ stocks' = [s \in DOMAIN stocks |->
                 [current_price |-> stocks[s].current_price,
                  open_price |-> stocks[s].current_price,
                  high_price |-> stocks[s].current_price,
                  low_price |-> stocks[s].current_price]]
  /\ UNCHANGED <<priceHandlers, priceEvents, reply>>
  /\ UNCHANGED <<busVars, webhookVars>>
  /\ UNCHANGED <<engineVars, marketVars, investorVars, priceVars, analyticsVars>>

NextPrice ==
  \/ SendUpdatePrice
  \/ \E n \in 1..MaxPriceCalls :
        UpdatePriceGet(n) \/ UpdatePriceRun(n) \/ UpdatePriceRecord(n)
  \/ ResetDailyPrices

SpecPrice == Init /\ [][NextPrice]_vars

\* ------------------- PlaceOrder requests while the market state is changed
StatePlaceOrder == Len(requests) < MaxStateOrders /\ PlaceOrder

NextState ==
  \/ SetMarketState
  \/ StatePlaceOrder
  \/ \E n \in 1..MaxStateOrders :
        ValidateOrder(n) \/ PlaceOrderCreate(n) \/ PlaceOrderAdmit(n)
  \/ MatchStep
  \/ PlaceOrderSettle
  \/ InvestorStep
  \/ GetPrice
  \/ UpdatePrice
  \/ RecordTrade

SpecState == Init /\ [][NextState]_vars

\* ------------------------------------------------------------ properties
\* ------------------------- the investor service called through its methods
\* the request of an UpdateBalance or UpdatePortfolio call that is not part
\* of an execution's settlement
DirectCall(sym, p) == [execution_id |-> 0, stock_symbol |-> sym, price |-> p]

Amounts == ((0 - MaxAmount)..MaxAmount) \ {0}
QuantityChanges == ((0 - MaxQty)..MaxQty) \ {0}

\* updateBalance of the investor service (investor-service/server.js:74-87)
SendUpdateBalance ==
  /\ pc = "idle"
  /\ Len(investorCalls) < MaxInvestorCalls
  /\ \E inv \in Investors, sym \in Symbols, amt \in Amounts :
       investorCalls' = Append(investorCalls, BalanceCall(DirectCall(sym, 0), inv, amt))
  /\ UNCHANGED <<investors, portfolio, transactions>>
  /\ UNCHANGED <<engineVars, marketVars, priceVars, analyticsVars, stockVars, reply>>
  /\ UNCHANGED <<busVars, webhookVars>>

\* updatePortfolio of the investor service (investor-service/server.js:141-160)
SendUpdatePortfolio ==
  /\ pc = "idle"
  /\ Len(investorCalls) < MaxInvestorCalls
  /\ \E inv \in Investors, sym \in Symbols, qc \in QuantityChanges,
        p \in Prices \ {0} :
       investorCalls' = Append(investorCalls, PortfolioCall(DirectCall(sym, p), inv, qc))
  /\ UNCHANGED <<investors, portfolio, transactions>>
  /\ UNCHANGED <<engineVars, marketVars, priceVars, analyticsVars, stockVars, reply>>
  /\ UNCHANGED <<busVars, webhookVars>>

NextInvestor == SendUpdateBalance \/ SendUpdatePortfolio \/ InvestorStep

SpecInvestor == Init /\ [][NextInvestor]_vars

\* a client that waits for the answer of each updatePortfolio call before
\* it makes the next
AllAnswered == \A n \in 1..Len(investorCalls) : investorCalls[n].pc = "done"

SendNextUpdatePortfolio == AllAnswered /\ SendUpdatePortfolio

NextPair ==
  \/ SendNextUpdatePortfolio
  \/ \E n \in 1..MaxInvestorCalls :
       UpdatePortfolioGet(n) \/ UpdatePortfolioRun(n) \/ UpdatePortfolioRecord(n)

SpecPair == Init /\ [][NextPair]_vars

\* ---------------- PlaceOrder requests with order_type in either encoding
\* order_type as a number, and as the name of the enum value
SentOrderTypes == {"0", "1", "BUY", "SELL"}

PlaceOrderAsSent == Len(requests) < MaxStateOrders /\ placeOrder(SentOrderTypes)

NextSide ==
  \/ PlaceOrderAsSent
  \/ \E n \in 1..MaxStateOrders :
       ValidateOrder(n) \/ PlaceOrderCreate(n) \/ PlaceOrderAdmit(n)
  \/ MatchStep
  \/ PlaceOrderSettle
  \/ InvestorStep
  \/ GetPrice
  \/ UpdatePrice
  \/ RecordTrade

SpecSide == Init /\ [][NextSide]_vars

\* ---------------- PlaceOrder requests with Date.now() counting milliseconds
NextAggressor ==
  \/ StatePlaceOrder
  \/ \E n \in 1..MaxStateOrders :
       ValidateOrder(n) \/ PlaceOrderCreateNow(n) \/ PlaceOrderAdmit(n)
  \/ MatchStep
  \/ PlaceOrderSettle
  \/ InvestorStep
  \/ GetPrice
  \/ UpdatePrice
  \/ RecordTrade

SpecAggressor == Init /\ [][NextAggressor]_vars

\* ------------------------------------------------- streams
\* streamMarketEvents (server.js:341-346): the call subscribes its callback
StreamMarketEvents ==
  /\ pc = "idle"
  /\ \E s \in StreamIds, f \in Filters, th \in BOOLEAN :
       /\ streams[s].status = "none"
       /\ \A r \in 1..(s - 1) : streams[r].status # "none"
       /\ streams' = [streams EXCEPT ![s] =
            [NoStream EXCEPT !.status = "open", !.service = "market",
                             !.stock_symbols = f, !.throws = th]]
       /\ eventSubscribers' = Append(eventSubscribers, s)
  /\ UNCHANGED <<priceSubscribers, webhookVars, reply>>
  /\ UNCHANGED <<engineVars, marketVars, investorVars, priceVars, analyticsVars, stockVars>>

\* streamPrices (part_007:93-98)
StreamPrices ==
  /\ pc = "idle"
  /\ \E s \in StreamIds, f \in Filters, th \in BOOLEAN :
       /\ streams[s].status = "none"
       /\ \A r \in 1..(s - 1) : streams[r].status # "none"
       /\ streams' = [streams EXCEPT ![s] =
            [NoStream EXCEPT !.status = "open", !.service = "price",
                             !.stock_symbols = f, !.throws = th]]
       /\ priceSubscribers' = Append(priceSubscribers, s)
  /\ UNCHANGED <<eventSubscribers, webhookVars, reply>>
  /\ UNCHANGED <<engineVars, marketVars, investorVars, priceVars, analyticsVars, stockVars>>

\* call.on('cancelled') and call.on('error') (server.js:361-368,
\* part_007:113-120): both handlers unsubscribe
StreamEnds ==
  /\ pc = "idle"
  /\ \E s \in StreamIds :
       /\ streams[s].status = "open"
       /\ streams' = [streams EXCEPT ![s].status = "cancelled"]
       /\ eventSubscribers' = IF streams[s].service = "market"
                              THEN unsubscribe(eventSubscribers, s)
                              ELSE eventSubscribers
       /\ priceSubscribers' = IF streams[s].service = "price"
                              THEN unsubscribe(priceSubscribers, s)
                              ELSE priceSubscribers
  /\ UNCHANGED <<webhookVars, reply>>
  /\ UNCHANGED <<engineVars, marketVars, investorVars, priceVars, analyticsVars, stockVars>>

\* the client of a stream takes the next event that call.write has buffered
ClientReads ==
  /\ pc = "idle"
  /\ \E s \in StreamIds :
       /\ streams[s].status = "open"
       /\ streams[s].read < Len(streams[s].written)
       /\ streams' = [streams EXCEPT ![s].read = @ + 1]
  /\ UNCHANGED <<subscriberVars, webhookVars, reply>>
  /\ UNCHANGED <<engineVars, marketVars, investorVars, priceVars, analyticsVars, stockVars>>

\* investor A admits an order of quantity 1, at the market or at price 1
StreamAddOrder ==
  /\ pc = "idle"
  /\ uuid < MaxStreamOrders
  /\ \E inv \in {"A"}, sym \in Symbols, ot \in EngineOrderTypes, p \in {0, 1} :
       addOrder(NewOrder(uuid + 1, inv, sym, ot, 1, p, clock), 0)
  /\ uuid' = uuid + 1
  /\ reply' = NoReply
  /\ UNCHANGED execCount
  /\ UNCHANGED <<marketVars, investorVars, priceVars, analyticsVars, stockVars>>
  /\ UNCHANGED <<subscriberVars, webhookVars>>

StreamCancelOrder ==
  /\ \E id \in 1..MaxStreamOrders, inv \in Investors : cancelOrder(id, inv)
  /\ UNCHANGED reply

\* an UpdatePrice call for a trade of MaxVolume reaches the price service
StreamUpdatePrice ==
  /\ Len(priceHandlers) < MaxStreamPriceCalls
  /\ \E sym \in Symbols, isBuy \in BOOLEAN :
       priceHandlers' = Append(priceHandlers,
         [stock_symbol |-> sym, trade_volume |-> MaxVolume, is_buy |-> isBuy,
          execution_id |-> Len(priceHandlers) + 1, pc |-> "sent",
          currentPrice |-> 0, newPrice |-> 0, highPrice |-> 0, lowPrice |-> 0])
  /\ UNCHANGED <<stocks, priceEvents, reply>>
  /\ UNCHANGED <<engineVars, marketVars, investorVars, priceVars, analyticsVars>>
  /\ UNCHANGED <<busVars, webhookVars>>

NextStream ==
  \/ StreamMarketEvents
  \/ StreamPrices
  \/ StreamEnds
  \/ StreamAddOrder
  \/ MatchStep
  \/ MatchReturn
  \/ StreamCancelOrder
  \/ StreamUpdatePrice
  \/ \E n \in 1..MaxStreamPriceCalls :
       UpdatePriceGet(n) \/ UpdatePriceRun(n) \/ UpdatePriceRecord(n)

SpecStream == Init /\ [][NextStream]_vars

\* the market-event streams with clients that read at their own pace
NextOverflow ==
  \/ StreamMarketEvents
  \/ StreamEnds
  \/ ClientReads
  \/ StreamAddOrder
  \/ MatchStep
  \/ MatchReturn
  \/ StreamCancelOrder

SpecOverflow == Init /\ [][NextOverflow]_vars

\* ------------------------------------------------- webhook deliveries
\* dispatchEvent once its SELECT has answered (lines 434-474)
DispatchEvent ==
  /\ dispatched < MaxDispatches
  /\ dispatched' = dispatched + 1
  /\ \E eventType \in EventTypes :
       LET ws == relevantWebhooks(eventType)
           q  == deliveryQueue \o deliveries(ws, dispatched + 1, eventType)
       IN  IF ws = {}
           THEN UNCHANGED <<deliveryQueue, isProcessing, posting, posts>>
           ELSE IF ~isProcessing
                THEN processDeliveryQueue(q)
                ELSE /\ deliveryQueue' = q
                     /\ UNCHANGED <<isProcessing, posting, posts>>
  /\ UNCHANGED <<timers, webhooks, busVars, reply>>
  /\ UNCHANGED <<engineVars, marketVars, investorVars, priceVars, analyticsVars, stockVars>>

\* deliverWebhook after its axios.post has answered or failed (lines
\* 519-561), then processDeliveryQueue's next turn of the loop
PostAnswered ==
  /\ posting # NoDelivery
  /\ \E delivered \in BOOLEAN :
       timers' = IF ~delivered /\ mayRetry(posting.retries)
                 THEN timers \cup {[posting EXCEPT !.retries = @ + 1]}
                 ELSE timers
  /\ processDeliveryQueue(deliveryQueue)
  /\ UNCHANGED <<dispatched, webhooks, busVars, reply>>
  /\ UNCHANGED <<engineVars, marketVars, investorVars, priceVars, analyticsVars, stockVars>>

\* the function deliverWebhook gave to setTimeout runs (lines 539-548)
RetryTimer ==
  /\ \E d \in timers :
       /\ timers' = timers \ {d}
       /\ IF ~isProcessing
          THEN processDeliveryQueue(Append(deliveryQueue, d))
          ELSE /\ deliveryQueue' = Append(deliveryQueue, d)
               /\ UNCHANGED <<isProcessing, posting, posts>>
  /\ UNCHANGED <<dispatched, webhooks, busVars, reply>>
  /\ UNCHANGED <<engineVars, marketVars, investorVars, priceVars, analyticsVars, stockVars>>

NextWebhook == DispatchEvent \/ PostAnswered \/ RetryTimer

SpecWebhook == Init /\ [][NextWebhook]_vars

\* axios.post is given a timeout of 5000 ms (line 513), so every post is
\* answered or fails; a timer set by setTimeout fires
SpecWebhookLive ==
  SpecWebhook /\ WF_vars(PostAnswered) /\ WF_vars(RetryTimer)

\* ------------------------------- an investor's performance asked for
\* the total_amount of the transactions of a behaviour: all its trades have
\* one size, next to 5000 or next to 10000
TradeSizes == {4999, 5000, 5001, 9999, 10000, 10001}

\* updatePortfolio records a purchase of one share by investor A (part_008,
\* lines 219-227)
RecordTransaction ==
  /\ Cardinality(transactions) < MaxTransactions
  /\ \E size \in TradeSizes :
       /\ \A tx \in transactions : tx.total_amount = size
       /\ transactions' = transactions \cup
            {[transaction_id |-> Cardinality(transactions) + 1,
              investor_id |-> "A", stock_symbol |-> "AAPL", type |-> "BUY",
              quantity |-> 1, price |-> size, total_amount |-> size]}
  /\ UNCHANGED <<investors, portfolio, investorCalls>>
  /\ UNCHANGED <<engineVars, marketVars, priceVars, analyticsVars, stockVars, reply>>
  /\ UNCHANGED <<busVars, webhookVars>>

\* getInvestorPerformance of the analytics service answers
GetInvestorPerformance ==
  /\ \E investorId \in Investors : performance' = getInvestorPerformance(investorId)
  /\ UNCHANGED <<analyticsCalls, analytics_trades>>
  /\ UNCHANGED <<engineVars, marketVars, investorVars, priceVars, stockVars, reply>>
  /\ UNCHANGED <<busVars, webhookVars>>

NextPerformance == RecordTransaction \/ GetInvestorPerformance

SpecPerformance == Init /\ [][NextPerformance]_vars

\* ------------------------------- webhooks switched on and off
\* updateWebhookStatus (lines 412-429): UPDATE webhooks SET active = ?
UpdateWebhookStatus ==
  /\ \E id \in DOMAIN webhooks, active \in BOOLEAN :
       webhooks' = [webhooks EXCEPT ![id].active = active]
  /\ UNCHANGED <<deliveryQueue, isProcessing, posting, timers, posts, dispatched>>
  /\ UNCHANGED <<busVars, reply>>
  /\ UNCHANGED <<engineVars, marketVars, investorVars, priceVars, analyticsVars, stockVars>>

NextDispatch == UpdateWebhookStatus \/ DispatchEvent \/ PostAnswered

SpecDispatch == Init /\ [][NextDispatch]_vars

Bids(s) == BookOf(orderBooks, s).bids
Asks(s) == BookOf(orderBooks, s).asks
Quiescent == pc = "idle"
HasEvent(type) == \E n \in 1..Len(events) : events[n].event_type = type

\* C1: when no engine call is running and both tops of a symbol's book are
\* limit orders, the best bid is priced strictly below the best ask.
C1_BookIntegrity ==
  Quiescent =>
    \A s \in DOMAIN orderBooks :
      (/\ Len(Bids(s)) > 0 /\ Len(Asks(s)) > 0
       /\ orders[Bids(s)[1]].price > 0 /\ orders[Asks(s)[1]].price > 0)
      => orders[Bids(s)[1]].price < orders[Asks(s)[1]].price

C1_Witness ==
  /\ Quiescent
  /\ HasEvent("ORDER_EXECUTED")
  /\ \E s \in DOMAIN orderBooks :
       /\ Len(Bids(s)) > 0 /\ Len(Asks(s)) > 0
       /\ orders[Bids(s)[1]].price > 0 /\ orders[Asks(s)[1]].price > 0

Terminal == {"FILLED", "CANCELED", "REJECTED"}

\* C6: an order whose status is FILLED, CANCELED or REJECTED keeps its status
\* and its filled quantity in every later step.
C6_TerminalStable ==
  [][\A id \in DOMAIN orders :
       orders[id].status \in Terminal =>
         /\ orders'[id].status = orders[id].status
         /\ orders'[id].filled_quantity = orders[id].filled_quantity]_vars

C6_Witness ==
  \E j \in DOMAIN orders, k \in DOMAIN orders :
    /\ orders[j].status = "CANCELED" /\ orders[j].filled_quantity > 0
    /\ k > j /\ orders[k].status = "FILLED"

PartlyFilled(o) == 0 < o.filled_quantity /\ o.filled_quantity < o.quantity

\* C7 as stated: FILLED iff filled = qty, and PARTIALLY_FILLED iff
\* 0 < filled < qty, for every order in every state.
C7_Original ==
  \A id \in DOMAIN orders :
    /\ orders[id].status = "FILLED" <=> orders[id].filled_quantity = orders[id].quantity
    /\ orders[id].status = "PARTIALLY_FILLED" <=> PartlyFilled(orders[id])

\* C7 amended: FILLED iff filled = qty; PARTIALLY_FILLED implies
\* 0 < filled < qty; and an order with 0 < filled < qty is PARTIALLY_FILLED
\* or, once canceled, CANCELED.
C7_StatusMatchesFill ==
  \A id \in DOMAIN orders :
    /\ orders[id].status = "FILLED" <=> orders[id].filled_quantity = orders[id].quantity
    /\ orders[id].status = "PARTIALLY_FILLED" => PartlyFilled(orders[id])
    /\ PartlyFilled(orders[id]) => orders[id].status \in {"PARTIALLY_FILLED", "CANCELED"}

C7_Witness ==
  /\ \E id \in DOMAIN orders :
       orders[id].status = "CANCELED" /\ PartlyFilled(orders[id])
  /\ \E id \in DOMAIN orders : orders[id].status = "FILLED"

EventsOf(id) == SelectSeq(events, LAMBDA e : e.order_id = id)

RECURSIVE SumQty(_)
SumQty(es) == IF es = <<>> THEN 0 ELSE es[1].quantity + SumQty(Tail(es))

Executed(es) == SelectSeq(es, LAMBDA e : e.event_type = "ORDER_EXECUTED")

\* C8: the events published for one order id are ORDER_PLACED, then
\* ORDER_EXECUTED events whose quantities add up to at most the order's
\* quantity, then at most one ORDER_CANCELED, which is last and is absent
\* when the executions fill the order.
C8_EventSequence ==
  \A id \in 1..uuid :
    LET es == EventsOf(id)
        n  == Len(es)
    IN  n > 0 =>
          /\ es[1].event_type = "ORDER_PLACED"
          /\ \A i \in 2..n : es[i].event_type \in {"ORDER_EXECUTED", "ORDER_CANCELED"}
          /\ \A i \in 1..n : es[i].event_type = "ORDER_CANCELED" => i = n
          /\ SumQty(Executed(es)) <= es[1].quantity
          /\ SumQty(Executed(es)) = es[1].quantity =>
               es[n].event_type # "ORDER_CANCELED"

C8_Witness ==
  \E id \in 1..uuid, id2 \in 1..uuid :
    /\ Len(EventsOf(id)) = 3
    /\ EventsOf(id)[2].event_type = "ORDER_EXECUTED"
    /\ EventsOf(id)[3].event_type = "ORDER_CANCELED"
    /\ Len(EventsOf(id2)) = 3
    /\ EventsOf(id2)[3].event_type = "ORDER_EXECUTED"

\* C9: each execution takes the highest-priced resting bid and the
\* lowest-priced resting ask, the earliest admitted among equals, and the
\* executions of one matchOrders call walk the ask prices upwards and the
\* bid prices downwards.
C9_PriceTimePriority ==
  [][(pc = "matching" /\ Len(executions') = Len(executions) + 1) =>
      LET e    == executions'[Len(executions')]
          bids == Bids(cur.symbol)
          asks == Asks(cur.symbol)
          b    == orders[e.buy_order_id]
          a    == orders[e.sell_order_id]
      IN  /\ \E i \in 1..Len(bids) : bids[i] = e.buy_order_id
          /\ \E i \in 1..Len(asks) : asks[i] = e.sell_order_id
          /\ \A i \in 1..Len(bids) :
               /\ orders[bids[i]].price <= b.price
               /\ orders[bids[i]].price = b.price => e.buy_order_id <= bids[i]
          /\ \A i \in 1..Len(asks) :
               /\ orders[asks[i]].price >= a.price
               /\ orders[asks[i]].price = a.price => e.sell_order_id <= asks[i]
          /\ e.quantity > 0
          /\ Len(executions) > 0 =>
               LET d == executions[Len(executions)]
               IN  /\ orders[d.sell_order_id].price <= a.price
                   /\ orders[d.buy_order_id].price >= b.price]_vars

\* the sweep of the second end-to-end scenario, scaled: asks 1 @ 1 and 2 @ 2
\* hit by a market BUY of 2 give 1 @ 1 then 1 @ 2 and leave 1 @ 2 resting
C9_Witness ==
  /\ Quiescent
  /\ Len(executions) = 2
  /\ executions[1].quantity = 1 /\ executions[1].price = 1
  /\ executions[2].quantity = 1 /\ executions[2].price = 2
  /\ executions[1].buy_order_id = executions[2].buy_order_id
  /\ LET m == orders[executions[1].buy_order_id]
         r == orders[executions[2].sell_order_id]
     IN  /\ m.price = 0 /\ m.quantity = 2 /\ m.status = "FILLED"
         /\ r.quantity - r.filled_quantity = 1
         /\ Asks(r.stock_symbol) = <<r.order_id>>

MarketFirst(side) ==
  \A i \in 1..Len(side), j \in 1..Len(side) :
    i < j =>
      /\ ~(orders[side[i]].price > 0 /\ orders[side[j]].price = 0)
      /\ (orders[side[i]].price = 0 /\ orders[side[j]].price = 0) => side[i] < side[j]

\* C10: on the bid side and on the ask side of every book, no limit order is
\* ranked ahead of a market order, and market orders are in arrival order.
C10_MarketOrdersFirst ==
  \A s \in DOMAIN orderBooks : MarketFirst(Bids(s)) /\ MarketFirst(Asks(s))

\* ---------------------------------------------------- settlement properties
CallsOf(e) == {n \in 1..Len(investorCalls) : investorCalls[n].execution_id = e}
SettledExecutions ==
  {e \in 1..execCount :
     /\ CallsOf(e) # {}
     /\ \A n \in CallsOf(e) : investorCalls[n].pc = "done"}
AllSettled ==
  /\ investorCalls # <<>>
  /\ \A n \in 1..Len(investorCalls) : investorCalls[n].pc = "done"

RECURSIVE SumAmount(_, _)
SumAmount(cs, inv) ==
  IF cs = <<>> THEN 0
  ELSE (IF cs[1].kind = "UpdateBalance" /\ cs[1].investor_id = inv
        THEN cs[1].amount ELSE 0) + SumAmount(Tail(cs), inv)

\* C2: once every settlement call has completed, each investor's balance is
\* the seed minus qty x price for every execution bought plus qty x price
\* for every execution sold, so that the balances still add up to the seed.
C2_CashConserved ==
  AllSettled =>
    \A inv \in Investors :
      investors[inv] = SeedBalance[inv] + SumAmount(investorCalls, inv)

RECURSIVE SumSet(_, _)
SumSet(S, f) ==
  IF S = {} THEN 0
  ELSE LET x == CHOOSE y \in S : TRUE IN f[x] + SumSet(S \ {x}, f)

Held(sym) == SumSet(Investors, [inv \in Investors |-> portfolio[<<inv, sym>>].quantity])
SeedHeld(sym) ==
  SumSet(Investors, [inv \in Investors |-> SeedPortfolio[<<inv, sym>>].quantity])
Recorded(sym, type) ==
  LET T == {t \in transactions : t.stock_symbol = sym /\ t.type = type}
  IN  SumSet(T, [t \in T |-> t.quantity])

\* C3: whenever no portfolio or balance update is under way, the quantity
\* of a symbol held by all investors is the seed plus the settled BUY
\* quantity minus the settled SELL quantity.
C3_SharesConserved ==
  Active = {} =>
    \A sym \in Symbols :
      Held(sym) = SeedHeld(sym) + Recorded(sym, "BUY") - Recorded(sym, "SELL")

\* C4: the four mutations of a settled execution (buyer holding, buyer
\* balance, seller holding, seller balance) were all applied or none was.
C4_AllOrNothing ==
  \A e \in SettledExecutions :
    \A m \in CallsOf(e), n \in CallsOf(e) :
      investorCalls[m].success = investorCalls[n].success

PendingOn(sym) ==
  \/ \E n \in 1..Len(investorCalls) :
       investorCalls[n].stock_symbol = sym /\ investorCalls[n].pc # "done"
  \/ \E n \in 1..Len(priceCalls) :
       priceCalls[n].stock_symbol = sym /\ priceCalls[n].execution_id # 0
  \/ \E n \in 1..Len(analyticsCalls) : analyticsCalls[n].stock_symbol = sym

\* C5: while the engine admits an order on a symbol, no settlement effect of
\* an earlier execution on that symbol is still outstanding.
C5_SettledBeforeAdmit ==
  pc = "matching" => ~PendingOn(cur.symbol)


\* ------------------------------------------------------------ cancelOrder
InBook(books, id) ==
  \E s \in DOMAIN books :
    \/ \E i \in 1..Len(books[s].bids) : books[s].bids[i] = id
    \/ \E i \in 1..Len(books[s].asks) : books[s].asks[i] = id

\* what a cancelOrder(id, inv) call must do, from the state it is called in
CancelStep(id, inv) ==
  LET refused == \/ id \notin DOMAIN orders
                 \/ orders[id].investor_id # inv
                 \/ orders[id].status \in {"FILLED", "CANCELED", "REJECTED"}
  IN  IF refused
      THEN /\ ~reply'.success
           /\ UNCHANGED <<orders, orderBooks, events>>
      ELSE /\ reply'.success
           /\ ~InBook(orderBooks', id)
           /\ \A o \in DOMAIN orders \ {id} : InBook(orderBooks', o) = InBook(orderBooks, o)
           /\ DOMAIN orders' = DOMAIN orders
           /\ orders'[id] = [orders[id] EXCEPT !.status = "CANCELED"]
           /\ \A o \in DOMAIN orders \ {id} : orders'[o] = orders[o]
           /\ Len(events') = Len(events) + 1
           /\ SubSeq(events', 1, Len(events)) = events
           /\ events'[Len(events')].event_type = "ORDER_CANCELED"
           /\ events'[Len(events')].order_id = id

\* C11: cancelOrder answers success = false and leaves the orders, the books
\* and the event stream as they were when the order id is unknown, the
\* caller is not the order's investor or the order is terminal; otherwise it
\* takes the order out of its book, sets CANCELED and publishes exactly one
\* ORDER_CANCELED; a canceled order is in no book and is never filled again.
C11_CancelContract ==
  [][ /\ (reply' # reply /\ reply'.op = "cancelOrder")
         => CancelStep(reply'.order_id, reply'.investor_id)
      /\ \A id \in DOMAIN orders :
           orders[id].status = "CANCELED"
           => /\ ~InBook(orderBooks', id)
              /\ orders'[id].filled_quantity = orders[id].filled_quantity
    ]_vars

\* a partly filled order was canceled, and a second cancel of it was refused
C11_Witness ==
  /\ reply.op = "cancelOrder"
  /\ ~reply.success
  /\ reply.order_id \in DOMAIN orders
  /\ orders[reply.order_id].investor_id = reply.investor_id
  /\ orders[reply.order_id].status = "CANCELED"
  /\ orders[reply.order_id].filled_quantity > 0


\* ------------------------------------------------- rejected PlaceOrder calls
\* the pre-trade test of a request, from the tables as they are now
MustReject(r) ==
  IF r.order_type = "0"
  THEN investors[r.investor_id] < r.quantity * r.price
  ELSE portfolio[<<r.investor_id, r.stock_symbol>>].quantity < r.quantity

\* C12: a PlaceOrder whose validation fails (BUY with balance < qty * price,
\* SELL with held quantity < qty) is answered REJECTED and changes nothing:
\* no order enters the engine or the orders table, no book changes, no
\* market event is published and no price update is issued.
C12_RejectedChangesNothing ==
  [][ \A n \in 1..Len(requests) :
        /\ (requests[n].pc = "validating" /\ requests'[n].pc = "validated")
           => requests'[n].valid = ~MustReject(requests[n])
        /\ (requests[n].pc = "validated" /\ ~requests[n].valid
              /\ requests'[n] # requests[n])
           => /\ requests'[n].pc = "done"
              /\ requests'[n].status = "REJECTED"
              /\ requests'[n].order_id = 0
              /\ UNCHANGED <<orders, orderBooks, events, executions, ordersTable,
                             priceCalls, price_history, investorCalls,
                             analyticsCalls, investors, portfolio>>
        /\ (requests[n].status = "REJECTED")
           => /\ requests'[n] = requests[n]
              /\ \A id \in DOMAIN orders' : id # 0 /\ requests'[n].order_id # id
    ]_vars

\* a SELL of more than the investor holds was rejected while another order
\* rests in the book
C12_Witness ==
  \E n \in 1..Len(requests) :
    /\ requests[n].pc = "done"
    /\ requests[n].status = "REJECTED"
    /\ ~requests[n].valid
    /\ requests[n].order_type = "1"
    /\ \E s \in DOMAIN orderBooks : Len(orderBooks[s].bids) > 0


\* ------------------------------------------------------------ market state
StateName(state) == <<"OPEN", "CLOSED", "PAUSED">>[state + 1]

Count(s, id) == Cardinality({i \in 1..Len(s) : s[i] = id})

\* C14: admitting an order whose order_id the engine already knows inserts
\* no second book entry for that id: every id is at most once in a book.
C14_NoDoubleInsert ==
  \A s \in DOMAIN orderBooks : \A id \in DOMAIN orders :
    /\ Count(orderBooks[s].bids, id) <= 1
    /\ Count(orderBooks[s].asks, id) <= 1


\* ------------------------------------------------------- execution events
IsExecutedFor(ev, id, inv, e) ==
  /\ ev.event_type = "ORDER_EXECUTED"
  /\ ev.order_id = id
  /\ ev.investor_id = inv
  /\ ev.stock_symbol = e.stock_symbol
  /\ ev.quantity = e.quantity
  /\ ev.price = e.price

\* C15: every execution publishes exactly two ORDER_EXECUTED events, one with
\* the buy order's id and buyer and one with the sell order's id and seller,
\* both with the execution's quantity and price; a step that records no
\* execution publishes no ORDER_EXECUTED.
C15_TwoEventsPerExecution ==
  [][ /\ IF Len(executions') = Len(executions) + 1
         THEN LET e == executions'[Len(executions')]
                  n == Len(events)
              IN  /\ Len(events') = n + 2
                  /\ SubSeq(events', 1, n) = events
                  /\ IsExecutedFor(events'[n + 1], e.buy_order_id, e.buyer_id, e)
                  /\ IsExecutedFor(events'[n + 2], e.sell_order_id, e.seller_id, e)
                  /\ events'[n + 1].order_type = "BUY"
                  /\ events'[n + 2].order_type = "SELL"
                  /\ orders[e.buy_order_id].investor_id = e.buyer_id
                  /\ orders[e.sell_order_id].investor_id = e.seller_id
                  /\ execCount' = execCount + 1
         ELSE /\ Executed(events') = Executed(events)
              /\ execCount' = execCount
      /\ Len(Executed(events)) = 2 * execCount
    ]_vars

\* two executions, the second for part of an order, have published four events
C15_Witness ==
  /\ pc = "idle"
  /\ execCount = 2
  /\ Len(Executed(events)) = 4
  /\ \E id \in DOMAIN orders : orders[id].status = "PARTIALLY_FILLED"


\* ------------------------------------------------------- price updates
\* every request has been answered and every call it caused has been handled
AllHandled ==
  /\ pc = "idle"
  /\ \A n \in 1..Len(requests) : requests[n].pc = "done"
  /\ priceCalls = <<>>
  /\ analyticsCalls = <<>>
  /\ \A n \in 1..Len(investorCalls) : investorCalls[n].pc = "done"

\* C16: over a run of PlaceOrder calls, the number of price updates published
\* (one per updatePrice call handled) equals the number of executions settled.
C16_OnePriceUpdatePerExecution ==
  AllHandled => Len(price_history) = execCount


\* ------------------------------------------------------- lost updates
\* the calls of one kind that reported success, as a set of call numbers
Succeeded(kind) ==
  {n \in 1..Len(investorCalls) :
     /\ investorCalls[n].kind = kind
     /\ investorCalls[n].pc = "done"
     /\ investorCalls[n].success}

AppliedAmount(inv) ==
  LET S == {n \in Succeeded("UpdateBalance") : investorCalls[n].investor_id = inv}
  IN  SumSet(S, [n \in S |-> investorCalls[n].amount])

AppliedQuantity(inv, sym) ==
  LET S == {n \in Succeeded("UpdatePortfolio") :
              /\ investorCalls[n].investor_id = inv
              /\ investorCalls[n].stock_symbol = sym}
  IN  SumSet(S, [n \in S |-> investorCalls[n].quantity_change])

\* C18: no update of an investor row or of a holding is lost: once no call is
\* under way, every balance is the seed plus the amounts of the updateBalance
\* calls that reported success, and every holding is the seed plus the
\* quantity changes of the updatePortfolio calls that reported success.
C18_NoLostUpdate ==
  Active = {} =>
    /\ \A inv \in Investors :
         investors[inv] = SeedBalance[inv] + AppliedAmount(inv)
    /\ \A inv \in Investors, sym \in Symbols :
         portfolio[<<inv, sym>>].quantity
           = SeedPortfolio[<<inv, sym>>].quantity + AppliedQuantity(inv, sym)


\* ------------------------------------------------------- price service
\* C17: for one symbol, the price updates caused by executions are published
\* in the order in which the matching engine produced the executions.
C17_PriceUpdatesInExecutionOrder ==
  \A i \in 1..Len(priceEvents), j \in 1..Len(priceEvents) :
    (i < j /\ priceEvents[i].stock_symbol = priceEvents[j].stock_symbol)
    => priceEvents[i].execution_id < priceEvents[j].execution_id

\* C19: price mutations of one symbol are serialized: whenever a call writes
\* the stock's row, the current_price it computed its new price from is the
\* current_price the row still has, so that no update is overwritten unseen.
C19_PriceUpdatesSerialized ==
  [][ \A n \in 1..Len(priceHandlers) :
        (priceHandlers[n].pc = "read" /\ priceHandlers'[n].pc = "written")
        => stocks[priceHandlers[n].stock_symbol].current_price
             = priceHandlers[n].currentPrice
    ]_vars

\* C20: every stock has current_price >= 0.01 and
\* low_price <= current_price <= high_price, after every updatePrice, after
\* resetDailyPrices and when updatePrice calls overlap.
C20_PriceBounds ==
  \A s \in DOMAIN stocks :
    /\ stocks[s].current_price >= PriceFloor
    /\ stocks[s].low_price <= stocks[s].current_price
    /\ stocks[s].current_price <= stocks[s].high_price

\* two overlapping calls have both written, the later writer computed from a
\* price the earlier one had replaced, and the price sits on the floor
C20_Witness ==
  \E s \in DOMAIN stocks, m \in 1..Len(priceHandlers), n \in 1..Len(priceHandlers) :
    /\ m # n
    /\ priceHandlers[m].pc = "done"
    /\ priceHandlers[n].pc = "done"
    /\ priceHandlers[m].currentPrice = priceHandlers[n].currentPrice
    /\ priceHandlers[m].newPrice > priceHandlers[m].currentPrice
    /\ priceHandlers[n].newPrice = PriceFloor
    /\ stocks[s].current_price = PriceFloor
    /\ stocks[s].high_price > stocks[s].low_price

\* ------------------------------------------------- validateOrder
\* C21: validateOrder never mutates: whatever the request, the investors,
\* portfolio and transactions tables are the same after the call as before;
\* its answer is valid for a BUY exactly when balance >= qty * price and for
\* a SELL exactly when the held quantity >= qty.
C21_ValidateOrderIsPure ==
  [][ \A n \in 1..Len(requests) :
        (requests[n].pc = "validating" /\ requests'[n].pc = "validated")
        => LET r == requests[n]
           IN  /\ investors' = investors
               /\ portfolio' = portfolio
               /\ transactions' = transactions
               /\ (r.order_type = "0")
                    => (requests'[n].valid
                          <=> investors[r.investor_id] >= r.quantity * r.price)
               /\ (r.order_type = "1")
                    => (requests'[n].valid
                          <=> portfolio[<<r.investor_id, r.stock_symbol>>].quantity
                                >= r.quantity)
    ]_vars

\* a BUY that costs the whole balance was answered valid, and an earlier SELL
\* of more shares than held was answered invalid
C21_Witness ==
  \E n, m \in 1..Len(requests) :
    /\ requests[n].pc = "validated"
    /\ requests[n].order_type = "0"
    /\ requests[n].valid
    /\ requests[n].price > 0
    /\ investors[requests[n].investor_id] = requests[n].quantity * requests[n].price
    /\ requests[m].order_type = "1"
    /\ requests[m].pc = "done"
    /\ ~requests[m].valid

\* ------------------------------------------------- updateBalance
\* C22: an updateBalance whose balance + amount would be negative fails and
\* leaves the balance unchanged, so every investor's balance is >= 0 in every
\* reachable state, also when updateBalance calls on one investor interleave.
C22_BalanceNeverNegative ==
  [][ /\ \A i \in Investors : investors[i] >= 0 /\ investors'[i] >= 0
      /\ \A n \in 1..Len(investorCalls) :
           LET c == investorCalls[n]
               d == investorCalls'[n]
           IN  /\ (c.kind = "UpdateBalance" /\ c.pc = "sent" /\ d.pc # "sent")
                  => IF investors[c.investor_id] + c.amount < 0
                     THEN d.pc = "done" /\ ~d.success /\ investors' = investors
                     ELSE d.pc = "read"
               /\ (c.kind = "UpdateBalance" /\ c.pc = "done" /\ ~c.success)
                  => d = c
    ]_vars

\* a debit larger than the balance has failed, and two more updateBalance
\* calls on the same investor have both read the balance and not yet written
C22_Witness ==
  \E k, n, m \in 1..Len(investorCalls) :
    /\ n # m
    /\ investorCalls[k].kind = "UpdateBalance"
    /\ investorCalls[k].pc = "done"
    /\ ~investorCalls[k].success
    /\ investorCalls[k].amount < 0
    /\ \A j \in {n, m} :
         /\ investorCalls[j].kind = "UpdateBalance"
         /\ investorCalls[j].pc = "read"
         /\ investorCalls[j].amount < 0
         /\ investorCalls[j].investor_id = investorCalls[k].investor_id

\* ------------------------------------------------- updatePortfolio
HeldNow(inv, sym) ==
  IF Exists(portfolio[<<inv, sym>>]) THEN portfolio[<<inv, sym>>].quantity ELSE 0

\* C23: an updatePortfolio with a negative quantity change fails when the
\* holding is absent or smaller than the quantity sold, the failure leaves
\* the portfolio table unchanged and appends no transaction row; a
\* transaction row is appended exactly when the holding mutation succeeded,
\* so a sale is never applied to, nor recorded for, a holding that is absent
\* or too small.
C23_SellNeedsShares ==
  [][ \A n \in 1..Len(investorCalls) :
        LET c    == investorCalls[n]
            d    == investorCalls'[n]
            held == HeldNow(c.investor_id, c.stock_symbol)
        IN  (c.kind = "UpdatePortfolio" /\ c.quantity_change < 0)
            => /\ (c.pc = "sent" /\ d.pc # "sent" /\ held + c.quantity_change < 0)
                  => /\ d.pc = "done" /\ ~d.success
                     /\ UNCHANGED <<portfolio, transactions>>
               /\ (c.pc = "read" /\ d.pc = "written")
                  => /\ held + c.quantity_change >= 0
                     /\ HeldNow(c.investor_id, c.stock_symbol)' = held + c.quantity_change
               /\ (c.pc # "done" /\ d.pc = "done")
                  => /\ d.success <=> c.pc = "written"
                     /\ d.success <=> transactions' # transactions
    ]_vars

\* C24: whatever the holding was (absent or present), updatePortfolio(+qty,
\* price) followed by updatePortfolio(-qty, price) leaves the holding's
\* quantity as it was before the pair, an absent holding absent again, and
\* the investor's cash balance unchanged.
C24_BuyThenSellRestores ==
  \A n \in 1..(Len(investorCalls) - 1) :
    LET buy  == investorCalls[n]
        sell == investorCalls[n + 1]
        k    == <<buy.investor_id, buy.stock_symbol>>
    IN  ( /\ n + 1 = Len(investorCalls)
          /\ buy.quantity_change > 0
          /\ sell.quantity_change = 0 - buy.quantity_change
          /\ sell.price = buy.price
          /\ <<sell.investor_id, sell.stock_symbol>> = k
          /\ sell.pc = "done" )
        => /\ buy.success /\ sell.success
           /\ IF buy.statement.op = "INSERT"
              THEN ~Exists(portfolio[k])
              ELSE /\ Exists(portfolio[k])
                   /\ portfolio[k].quantity
                        = buy.statement.quantity - buy.quantity_change
           /\ investors[buy.investor_id] = SeedBalance[buy.investor_id]

\* a purchase into an absent holding was followed by the sale of the same
\* quantity at the same price, after an earlier call had emptied the holding
C24_Witness ==
  /\ Len(investorCalls) = 3
  /\ investorCalls[1].statement.op = "DELETE"
  /\ investorCalls[1].success
  /\ investorCalls[2].investor_id = investorCalls[1].investor_id
  /\ investorCalls[2].statement.op = "INSERT"
  /\ investorCalls[3].investor_id = investorCalls[1].investor_id
  /\ investorCalls[3].quantity_change = 0 - investorCalls[2].quantity_change
  /\ investorCalls[3].price = investorCalls[2].price
  /\ investorCalls[3].pc = "done"

\* ------------------------------------------------- execution price
\* C29: every execution is priced by the rule: the ask's limit price when the
\* bid is a market order, else the bid's limit price when the ask is a market
\* order, else (two limit orders) the ask's limit price; its quantity is the
\* smaller of the two orders' remaining quantities.
C29_ExecutionPriceRule ==
  [][ Len(executions') = Len(executions) + 1
      => LET e   == executions'[Len(executions')]
             bid == orders[e.buy_order_id]
             ask == orders[e.sell_order_id]
             bidLeft == bid.quantity - bid.filled_quantity
             askLeft == ask.quantity - ask.filled_quantity
         IN  /\ (bid.price = 0) => e.price = ask.price
             /\ (bid.price # 0 /\ ask.price = 0) => e.price = bid.price
             /\ (bid.price # 0 /\ ask.price # 0) => e.price = ask.price
             /\ e.quantity <= bidLeft /\ e.quantity <= askLeft
             /\ e.quantity = bidLeft \/ e.quantity = askLeft
    ]_vars

\* two limit orders have executed at the ask's price, below the bid's, for
\* the smaller remaining quantity, leaving the larger order partly filled
C29_Witness ==
  \E i \in 1..Len(executions) :
    LET e   == executions[i]
        bid == orders[e.buy_order_id]
        ask == orders[e.sell_order_id]
    IN  /\ ask.price # 0
        /\ bid.price > ask.price
        /\ e.price = ask.price
        /\ bid.quantity # ask.quantity
        /\ e.quantity = Min(bid.quantity, ask.quantity)

\* ------------------------------------------------- aggressor rule
\* the place of an order among the orders the engine has admitted
Arrival(id) ==
  CHOOSE i \in 1..Len(events) :
    events[i].event_type = "ORDER_PLACED" /\ events[i].order_id = id

\* C30: the price update of a settled execution takes its direction from the
\* aggressor: the market order's side when exactly one of the two orders is
\* a market order, the side of the order that arrived later when neither is;
\* a BUY aggressor gives is_buy = true, a SELL aggressor is_buy = false.
C30_AggressorRule ==
  [][ (pc = "matching" /\ pc' = "idle" /\ cur.request # 0)
      => \A i \in 1..Len(executions) :
           LET e    == executions[i]
               b    == orders[e.buy_order_id]
               s    == orders[e.sell_order_id]
               call == priceCalls'[Len(priceCalls) + i]
           IN  /\ call.kind = "UpdatePrice"
               /\ call.execution_id = e.execution_id
               /\ (b.price = 0 /\ s.price # 0) => call.is_buy
               /\ (s.price = 0 /\ b.price # 0) => ~call.is_buy
               /\ (b.price # 0 /\ s.price # 0)
                    => (call.is_buy <=> Arrival(b.order_id) > Arrival(s.order_id))
    ]_vars

\* ------------------------------------------------- subscribers and streams
Range(s) == {s[i] : i \in DOMAIN s}

\* the log a stream's events come from
LogOf(stream, marketLog, priceLog) ==
  IF stream.service = "market" THEN marketLog ELSE priceLog

Receives(stream, e) ==
  stream.stock_symbols = {} \/ e.stock_symbol \in stream.stock_symbols

\* the places after `from` of the events of log that the stream asked for
RECURSIVE SeqsFrom(_, _, _)
SeqsFrom(stream, log, from) ==
  IF from >= Len(log) THEN <<>>
  ELSE (IF Receives(stream, log[from + 1]) THEN <<from + 1>> ELSE <<>>)
         \o SeqsFrom(stream, log, from + 1)

\* C25: when a subscriber's callback throws during emitEvent or
\* notifyPriceUpdate, every other subscriber still receives that event and
\* the later ones, each in publish order, and the publisher's operation
\* (addOrder, cancelOrder, updatePrice) completes normally.
C25_ThrowingSubscriberIsolated ==
  [][ /\ \A s \in StreamIds :
           LET st  == streams[s]
               old == LogOf(st, events, priceEvents)
               new == LogOf(st, events', priceEvents')
               w   == streams'[s].written
           IN  (st.status = "open" /\ ~st.throws)
               => /\ w = st.written \o SeqsFrom(st, new, Len(old))
                  /\ \A i, j \in 1..Len(w) : i < j => w[i] < w[j]
      /\ (Len(events') > Len(events))
           => LET e == events'[Len(events')]
              IN  /\ e.event_type = "ORDER_PLACED"
                       => /\ pc' = "matching"
                          /\ InBook(orderBooks', e.order_id)
                  /\ e.event_type = "ORDER_CANCELED"
                       => /\ orders'[e.order_id].status = "CANCELED"
                          /\ ~InBook(orderBooks', e.order_id)
      /\ (Len(priceEvents') > Len(priceEvents))
           => \E n \in 1..Len(priceHandlers) :
                /\ priceHandlers[n].pc = "written"
                /\ priceHandlers'[n].pc = "done"
                /\ Len(price_history') = Len(price_history) + 1
    ]_vars

\* a subscriber whose callback throws was subscribed first and is still
\* subscribed, and the subscriber after it has received two events
C25_Witness ==
  /\ Len(eventSubscribers) = 2
  /\ streams[eventSubscribers[1]].throws
  /\ ~streams[eventSubscribers[2]].throws
  /\ streams[eventSubscribers[2]].stock_symbols = {}
  /\ Len(streams[eventSubscribers[2]].written) >= 2

\* C26: every subscriber has a bounded queue: a subscriber that stops
\* reading is dropped with an OVERFLOW event once QueueCapacity events are
\* undelivered to it (1024 by default), so no subscribed stream ever holds
\* that many undelivered events.
C26_OverflowDropsSubscriber ==
  \A s \in StreamIds :
    (streams[s].status = "open" /\ s \in Range(eventSubscribers))
    => Len(streams[s].written) - streams[s].read < QueueCapacity

\* C27: a subscriber receives only events published after it subscribed,
\* and once its stream is cancelled or errors its callback is out of the
\* subscriber set and is never invoked again, for market-event and price
\* streams alike.
C27_SubscriptionWindow ==
  [][ \A s \in StreamIds :
        LET st  == streams[s]
            old == LogOf(streams'[s], events, priceEvents)
            w   == streams'[s].written
        IN  /\ (s \notin Range(eventSubscribers) \cup Range(priceSubscribers))
                 => w = st.written
            /\ (streams'[s].status = "none") => w = <<>>
            /\ (streams'[s].status = "cancelled")
                 => s \notin Range(eventSubscribers') \cup Range(priceSubscribers')
            /\ \A i \in (Len(st.written) + 1)..Len(w) : w[i] > Len(old)
    ]_vars

\* a stream that subscribed after the first event and was cancelled before
\* the last holds events, the first and the last not among them, while a
\* cancelled price stream holds none of the updates published after it ended
C27_Witness ==
  \E s, r \in StreamIds :
    /\ streams[s].status = "cancelled"
    /\ streams[s].service = "market"
    /\ streams[s].stock_symbols = {}
    /\ ~streams[s].throws
    /\ streams[s].written # <<>>
    /\ streams[s].written[1] > 1
    /\ streams[s].written[Len(streams[s].written)] < Len(events)
    /\ streams[r].status = "cancelled"
    /\ streams[r].service = "price"
    /\ streams[r].written = <<>>
    /\ priceEvents # <<>>

\* ------------------------------------------------- webhook deliveries
Waiting(d) ==
  \/ \E i \in 1..Len(deliveryQueue) : deliveryQueue[i].id = d
  \/ \E t \in timers : t.id = d

\* C28: a webhook delivery whose HTTP post always fails is attempted at most
\* 3 times in total, and is then abandoned: it is never queued again.
C28_AtMostThreeAttempts ==
  \A d \in DeliveryIds :
    /\ posts[d] <= 3
    /\ (posts[d] = 3 /\ posting.id # d) => ~Waiting(d)

\* ------------------------------------------------------ live orders only
Resting(s) == {Bids(s)[i] : i \in 1..Len(Bids(s))} \cup {Asks(s)[i] : i \in 1..Len(Asks(s))}

\* C31: every order in a book is PENDING or PARTIALLY_FILLED and has a
\* remaining quantity above 0; a FILLED or CANCELED order is in no book.
C31_BooksHoldLiveOrders ==
  \A s \in DOMAIN orderBooks : \A id \in Resting(s) :
    /\ orders[id].status \in {"PENDING", "PARTIALLY_FILLED"}
    /\ orders[id].quantity - orders[id].filled_quantity > 0

C31_Witness ==
  /\ \E id \in DOMAIN orders : orders[id].status = "FILLED"
  /\ \E id \in DOMAIN orders : orders[id].status = "CANCELED"
  /\ \E s \in DOMAIN orderBooks : \E id \in Resting(s) :
       orders[id].status = "PARTIALLY_FILLED"

\* ------------------------------------------------- the portfolio table
\* the statement of sale n of updatePortfolio runs in this step
SaleRuns(n) ==
  /\ investorCalls[n].kind = "UpdatePortfolio"
  /\ investorCalls[n].quantity_change < 0
  /\ investorCalls[n].pc = "read"
  /\ investorCalls'[n].pc = "written"

\* C32: every row of the portfolio table has a quantity above 0 in every
\* state; the statement of a sale either deletes the row, which it does when
\* the sale brings the quantity it read to 0, or leaves a row of positive
\* quantity whose average price is what it was before the statement.
C32_HoldingsPositive ==
  [][ /\ \A k \in DOMAIN portfolio :
           /\ Exists(portfolio[k]) => portfolio[k].quantity > 0
           /\ Exists(portfolio'[k]) => portfolio'[k].quantity > 0
      /\ \A n \in 1..Len(investorCalls) :
           LET c == investorCalls[n]
               k == <<c.investor_id, c.stock_symbol>>
           IN  SaleRuns(n) =>
                 /\ \A j \in DOMAIN portfolio \ {k} : portfolio'[j] = portfolio[j]
                 /\ IF ~Exists(portfolio[k]) \/ c.statement.quantity = 0
                    THEN ~Exists(portfolio'[k])
                    ELSE /\ Exists(portfolio'[k])
                         /\ portfolio'[k].quantity = c.statement.quantity
                         /\ portfolio'[k].quantity > 0
                         /\ portfolio'[k].average_price = portfolio[k].average_price
    ]_vars

\* a sale has emptied a holding and its row is gone, while another sale left
\* a row whose average price a purchase had moved off the seed's
C32_Witness ==
  /\ \E n \in 1..Len(investorCalls) :
       /\ investorCalls[n].kind = "UpdatePortfolio"
       /\ investorCalls[n].pc = "done" /\ investorCalls[n].success
       /\ investorCalls[n].statement.op = "DELETE"
       /\ ~Exists(portfolio[<<investorCalls[n].investor_id, investorCalls[n].stock_symbol>>])
  /\ \E n \in 1..Len(investorCalls) :
       LET c == investorCalls[n]
           k == <<c.investor_id, c.stock_symbol>>
       IN  /\ c.kind = "UpdatePortfolio" /\ c.quantity_change < 0
           /\ c.pc = "done" /\ c.success /\ c.statement.op = "UPDATE"
           /\ Exists(portfolio[k])
           /\ portfolio[k].average_price # <<1, 1>>

\* ------------------------------------------------------- the depth view
\* the places of a side whose order is priced p
PlacesAt(side, p) == {i \in 1..Len(side) : orders[side[i]].price = p}

Remaining(side) ==
  [i \in 1..Len(side) |-> orders[side[i]].quantity - orders[side[i]].filled_quantity]

LevelsOf(side, levels) ==
  /\ \A p \in Prices :
       LET at == {i \in 1..Len(levels) : levels[i].price = p}
       IN  IF PlacesAt(side, p) = {} THEN at = {}
           ELSE /\ Cardinality(at) = 1
                /\ \A i \in at :
                     /\ levels[i].quantity = SumSet(PlacesAt(side, p), Remaining(side))
                     /\ levels[i].order_count = Cardinality(PlacesAt(side, p))
  /\ \A i \in 1..Len(levels) : levels[i].price \in Prices
  /\ SumSet(1..Len(levels), [i \in 1..Len(levels) |-> levels[i].quantity])
       = SumSet(1..Len(side), Remaining(side))

\* C33: getOrderBook(symbol) has, on each side, one level for each price at
\* which an order rests; the level's quantity is the sum of the remaining
\* quantities of the orders at that price and its order_count their number;
\* the quantities of a side's levels add up to the remaining quantity
\* resting on that side.
C33_DepthAggregatesRemaining ==
  \A s \in Symbols :
    /\ LevelsOf(Bids(s), getOrderBook(s).bids)
    /\ LevelsOf(Asks(s), getOrderBook(s).asks)

\* two orders rest at one price on one side, one of them partly filled
C33_Witness ==
  \E s \in DOMAIN orderBooks :
    \E side \in {Bids(s), Asks(s)} :
      /\ \E i \in 1..Len(side), j \in 1..Len(side) :
           /\ i # j
           /\ orders[side[i]].price = orders[side[j]].price
           /\ orders[side[i]].filled_quantity > 0
      /\ getOrderBook(s).bids \o getOrderBook(s).asks # <<>>

\* ------------------------------------------------------- dispatchEvent
\* the deliveries of dispatchEvent call n for webhook w that are queued or
\* being posted
QueuedFor(q, p, n, w) ==
  {i \in 1..Len(q) : q[i].id = <<n, w>>} \cup (IF p.id = <<n, w>> THEN {0} ELSE {})

Subscribed(w, eventType) ==
  eventType \in webhooks[w].events \/ "*" \in webhooks[w].events

\* C34: a dispatchEvent(eventType) call queues one delivery, of that event
\* type and with no retries, for each webhook that is active and whose events
\* hold eventType or "*", and none for any other webhook.
C34_OneDeliveryPerSubscriber ==
  [][ dispatched' = dispatched + 1 =>
        \E eventType \in EventTypes : \A w \in DOMAIN webhooks :
          LET new == QueuedFor(deliveryQueue', posting', dispatched', w)
          IN  /\ Cardinality(new) =
                   IF webhooks[w].active /\ Subscribed(w, eventType) THEN 1 ELSE 0
              /\ \A i \in new \ {0} :
                   deliveryQueue'[i].eventType = eventType /\ deliveryQueue'[i].retries = 0
              /\ 0 \in new => posting'.eventType = eventType /\ posting'.retries = 0
    ]_vars

\* an event was queued for the '*' webhook and for no other, while a
\* webhook that asks for the event by name is inactive
C34_Witness ==
  /\ dispatched > 0
  /\ ~webhooks[1].active
  /\ QueuedFor(deliveryQueue, posting, dispatched, 3) # {}
  /\ QueuedFor(deliveryQueue, posting, dispatched, 2) = {}
  /\ QueuedFor(deliveryQueue, posting, dispatched, 1) = {}
  /\ \E i \in 1..Len(deliveryQueue) :
       deliveryQueue[i].id = <<dispatched, 3>> /\ deliveryQueue[i].eventType = "ORDER_EXECUTED"

\* ------------------------------------------------------- risk level
AtLeast(f, x) == f[1] >= x * f[2]

\* C35 as stated: HIGH when the average trade size is >= 10000 or there are
\* more than 50 trades, otherwise MEDIUM when it is >= 5000 or there are more
\* than 20, otherwise LOW.
C35_Original ==
  performance # NoPerformance =>
    performance.risk_level =
      IF AtLeast(performance.average_trade_size, 10000) \/ performance.total_trades > 50
      THEN "HIGH"
      ELSE IF AtLeast(performance.average_trade_size, 5000) \/ performance.total_trades > 20
      THEN "MEDIUM"
      ELSE "LOW"

\* C35 amended: HIGH when the average trade size is above 10000 or there are
\* more than 50 trades, otherwise MEDIUM when it is above 5000 or there are
\* more than 20, otherwise LOW; an average of exactly 10000 is not HIGH by
\* its size and one of exactly 5000 is not MEDIUM by its size.
C35_RiskLevel ==
  performance # NoPerformance =>
    LET avg == performance.average_trade_size
        n   == performance.total_trades
    IN  /\ performance.risk_level =
             IF avg[1] > 10000 * avg[2] \/ n > 50 THEN "HIGH"
             ELSE IF avg[1] > 5000 * avg[2] \/ n > 20 THEN "MEDIUM"
             ELSE "LOW"
        /\ (avg = <<10000, 1>> /\ n <= 50) => performance.risk_level = "MEDIUM"
        /\ (avg = <<5000, 1>> /\ n <= 20) => performance.risk_level = "LOW"

\* twenty trades of exactly 5000 were classified
C35_Witness ==
  /\ performance.total_trades = 20
  /\ performance.average_trade_size = <<5000, 1>>
  /\ performance.risk_level = "LOW"
  /\ Cardinality(transactions) > 20

\* ------------------------------------------------ resting market orders
\* C36: when no engine call is running, no market order (price 0) rests on
\* a side of a book whose other side holds an order.
C36_NoRestingMarketOrder ==
  Quiescent =>
    \A s \in DOMAIN orderBooks :
      /\ (\E i \in 1..Len(Bids(s)) : orders[Bids(s)[i]].price = 0) => Asks(s) = <<>>
      /\ (\E i \in 1..Len(Asks(s)) : orders[Asks(s)[i]].price = 0) => Bids(s) = <<>>

\* ------------------------------------------------ executions are trades
\* C37: every execution matchOrders creates has a price above 0 and a
\* quantity above 0, also when a market BUY meets a market SELL.
C37_ExecutionsPositive ==
  \A i \in 1..Len(executions) :
    executions[i].price > 0 /\ executions[i].quantity > 0

\* ------------------------------------------------ one side per order
\* the row of the orders table with this order_id
RowOf(id) == ordersTable[CHOOSE i \in 1..Len(ordersTable) : ordersTable[i].order_id = id]

OnBids(books, id) ==
  \E s \in DOMAIN books : \E i \in 1..Len(books[s].bids) : books[s].bids[i] = id

\* C38: every step of PlaceOrder treats an admitted order as of one side,
\* whether order_type arrived as 0 / 1 or as 'BUY' / 'SELL': the engine puts
\* the order among the bids exactly when ValidateOrder was sent 'BUY' and
\* exactly when the orders table holds 'BUY', and the price update of an
\* order that rests without an execution has is_buy exactly when the order
\* rests among the bids.
C38_OneSidePerOrder ==
  [][ \A n \in 1..Len(requests) :
        LET r  == requests[n]
            d  == requests'[n]
            id == r.order_id
        IN  /\ (r.pc = "inserting" /\ d.pc = "admitted")
               => /\ InBook(orderBooks', id)
                  /\ OnBids(orderBooks', id) <=> sideSent(r.order_type) = "BUY"
                  /\ OnBids(orderBooks', id) <=> RowOf(id).order_type = "BUY"
            /\ (r.pc = "admitted" /\ d.pc = "done" /\ executions = <<>>)
               => /\ Len(priceCalls') = Len(priceCalls) + 1
                  /\ priceCalls'[Len(priceCalls')].is_buy <=> OnBids(orderBooks, id)
    ]_vars

\* ------------------------------------------------ matchOrders terminates
BookSize(books, s) == Len(BookOf(books, s).bids) + Len(BookOf(books, s).asks)

\* C39: every iteration of matchOrders' loop takes at least one order out of
\* the book, an order whose remaining quantity was the execution's quantity
\* and which is FILLED by it, so the executions of a call and the orders
\* left in the book never outnumber the orders the call found resting.
C39_EachIterationRemovesAnOrder ==
  [][ Len(executions') = Len(executions) + 1 =>
        LET e == executions'[Len(executions')]
            s == e.stock_symbol
        IN  /\ BookSize(orderBooks', s) < BookSize(orderBooks, s)
            /\ Len(executions') + BookSize(orderBooks', s)
                 <= Len(executions) + BookSize(orderBooks, s)
            /\ e.quantity > 0
            /\ \E id \in {e.buy_order_id, e.sell_order_id} :
                 /\ orders[id].quantity - orders[id].filled_quantity = e.quantity
                 /\ orders'[id].status = "FILLED"
                 /\ InBook(orderBooks, id) /\ ~InBook(orderBooks', id)
    ]_vars

\* one call made two executions and emptied the book
C39_Witness ==
  /\ pc = "matching"
  /\ Len(executions) = 2
  /\ BookSize(orderBooks, cur.symbol) = 0

\* ------------------------------------------------ the delivery queue
Queued(d) == \E i \in 1..Len(deliveryQueue) : deliveryQueue[i].id = d

\* C40: one processDeliveryQueue loop at most is active, and it is active
\* whenever deliveryQueue holds a delivery: isProcessing is set exactly while
\* the loop awaits a post; so every queued delivery is posted in the end,
\* and a queue that holds deliveries becomes empty.
C40_NoStrandedDelivery ==
  /\ [](/\ deliveryQueue # <<>> => isProcessing
        /\ isProcessing <=> posting # NoDelivery)
  /\ \A d \in DeliveryIds : Queued(d) ~> (posting.id = d)
  /\ (deliveryQueue # <<>>) ~> (deliveryQueue = <<>>)

\* a second dispatchEvent came while the loop awaited a post and a retry
\* timer was pending: its deliveries wait in the queue behind a retry
C40_Witness ==
  /\ dispatched = 2
  /\ isProcessing
  /\ posting.id[1] = 1
  /\ timers # {}
  /\ \E i \in 1..Len(deliveryQueue), j \in 1..Len(deliveryQueue) :
       /\ i < j
       /\ deliveryQueue[i].retries > 0
       /\ deliveryQueue[j].id[1] = 2

=============================================================================
